---- MODULE Spec2Model ----
(***************************************************************************)
(* Verification model of the place-record pipeline of whereinmaginhawa:    *)
(* the schema validator and batch validator (scripts/validate-place.ts),   *)
(* the create / update / delete submission routes, the CSRF check and the  *)
(* in-memory rate limiter.                                                 *)
(*                                                                         *)
(* Representation of values                                                *)
(*  - A string whose characters the repository's own code inspects (slug,  *)
(*    name, times, description, address) is a sequence of one-character    *)
(*    strings.                                                             *)
(*  - A string that only a library format check inspects (uuid, email,     *)
(*    url, datetime) is a record [kind, n]: kind is the format the string  *)
(*    has ("empty" is the empty string, "text" is a non-empty string of    *)
(*    no format), n tells strings of one kind apart; for "datetime" n is   *)
(*    the instant in milliseconds.                                         *)
(*  - An optional JSON property is a set: {} when the key is absent,       *)
(*    {v} when it is present with value v.                                 *)
(***************************************************************************)
EXTENDS Integers, Sequences, FiniteSets, TLC

VARIABLES
    \* ---- validator CLI (scripts/validate-place.ts) ----
    target,       \* what argv[2] names: its kind and the files found there
    results,      \* ValidationResult[] computed by main
    vpc,          \* "start" | "done" (summary printed) | "threw" (uncaught error)
    exitCode,     \* process exit status once vpc # "start"
    \* ---- submission pipeline (API routes, csrf, rate limiter, repository) ----
    clock,        \* Date.now()
    requests,     \* RateLimiter.requests : identifier -> timestamps
    accepted,     \* history: <<identifier, now>> of each check() that returned true, in order
    places,       \* the record files on main: file slug -> {} | {record}
    proposal,     \* {} or {the change the last handler handed to the GitHub PR call}
    response,     \* what the last handler did: route, status, stages reached
    nextUuid,     \* uuidv4(): number of ids handed out so far
    \* ---- stats scripts (scripts/build-stats.ts, scripts/generate-stats.js) ----
    statsSource,  \* apps/web/src/data: whether places/ exists, the files in it,
                  \*   and {} or {the array in places.json}
    statsJson,    \* apps/web/src/data/stats.json: {} or {the Stats written last}
    statsRun,     \* {} or {the last run: script, order of enumeration, exit, output}
    statsPrev,    \* {} or {the run before the last one}
    \* ---- merge script (scripts/merge-places.js) ----
    mergeSource,  \* apps/web/src/data: the files in it
    mergedJson,   \* apps/web/src/data/places.json: {} or {the array written last}
    mergeRun,     \* {} or {the last run: exit, output}
    mergePrev,    \* {} or {the run before the last one}
    \* ---- build workflow (.github/workflows/build-and-deploy.yml) ----
    workflow,     \* the run a push to main started: changed files, steps done, status
    \* ---- GitHub repository as lib/github's deletePlacePR sees it ----
    repo,         \* record files on main, branches (name -> files on it), open pulls, Date.now()
    deleteResult, \* {} or {what the last deletePlacePR call returned, and the calls it made}
    \* ---- one browser using lib/csrf-client, and the middleware ----
    browser,      \* cookie jar (the secret cookie), csrfToken of csrf-client, requests sent,
                  \*   status of the last csrfFetch answered
    network       \* the browser's requests in flight, each with the cookie and header it carries

vvars == <<target, results, vpc, exitCode>>
pvars == <<clock, requests, accepted, places, proposal, response, nextUuid>>
svars == <<statsSource, statsJson, statsRun, statsPrev>>
mvars == <<mergeSource, mergedJson, mergeRun, mergePrev>>
gvars == <<repo, deleteResult>>
cvars == <<browser, network>>
ovars == <<mvars, workflow, gvars, cvars>>
vars  == <<target, results, vpc, exitCode,
           clock, requests, accepted, places, proposal, response, nextUuid,
           statsSource, statsJson, statsRun, statsPrev,
           mergeSource, mergedJson, mergeRun, mergePrev,
           workflow, repo, deleteResult, browser, network>>

----------------------------------------------------------------------------
(* Optional values and small sequence helpers *)

None == {}

Some(v) == {v}

Has(o) == o # {}

Val(o) == CHOOSE v \in o : TRUE

Rep(c, n) == [i \in 1..n |-> c]

RECURSIVE Concat(_)
Concat(ss) == IF ss = <<>> THEN <<>> ELSE Head(ss) \o Concat(Tail(ss))

----------------------------------------------------------------------------
(* Characters *)

LowerChars == {"a", "b", "c", "d", "o", "r"}

UpperChars == {"A", "B", "R"}

DigitChars == {"0", "1", "2", "3", "4", "5", "6", "9"}

\* the value of a decimal digit
DigitVal(c) ==
    CASE c = "0" -> 0 [] c = "1" -> 1 [] c = "2" -> 2 [] c = "3" -> 3
      [] c = "4" -> 4 [] c = "5" -> 5 [] c = "6" -> 6 [] c = "9" -> 9

\* \w of a JavaScript regular expression
WordChars == LowerChars \cup UpperChars \cup DigitChars \cup {"_"}

\* \s
SpaceChars == {" "}

\* String.prototype.toLowerCase on one character
LowerOf(c) ==
    CASE c = "A" -> "a"
      [] c = "B" -> "b"
      [] c = "R" -> "r"
      [] OTHER   -> c

----------------------------------------------------------------------------
(* Format-tagged strings (checked by the zod library only) *)

Str(kind, n) == [kind |-> kind, n |-> n]

EmptyStr == Str("empty", 0)

IsEmptyStr(s) == s.kind = "empty"

IsUuid(s) == s.kind = "uuid"

IsEmail(s) == s.kind = "email"

IsUrl(s) == s.kind = "url"

IsDatetime(s) == s.kind = "datetime"

\* Date.prototype.toISOString of the instant t
toISOString(t) == Str("datetime", t)

----------------------------------------------------------------------------
(* Regular expressions written in the repository's source *)

\* /^-?[a-z0-9]+(?:-[a-z0-9]+)*$/, which lets a leading hyphen pass
IsKebabOrLeadingHyphen(s) ==
    /\ Len(s) >= 1
    /\ \A i \in 1..Len(s) : s[i] \in LowerChars \cup DigitChars \cup {"-"}
    /\ s[Len(s)] # "-"
    /\ \A i \in 1..(Len(s) - 1) : ~(s[i] = "-" /\ s[i + 1] = "-")

\* /^[a-z0-9]+(?:-[a-z0-9]+)*$/
IsKebab(s) ==
    /\ Len(s) >= 1
    /\ \A i \in 1..Len(s) : s[i] \in LowerChars \cup DigitChars \cup {"-"}
    /\ s[1] # "-"
    /\ s[Len(s)] # "-"
    /\ \A i \in 1..(Len(s) - 1) : ~(s[i] = "-" /\ s[i + 1] = "-")

\* /^\d{2}:\d{2}$/
IsHHMM(s) ==
    /\ Len(s) = 5
    /\ s[1] \in DigitChars
    /\ s[2] \in DigitChars
    /\ s[3] = ":"
    /\ s[4] \in DigitChars
    /\ s[5] \in DigitChars

----------------------------------------------------------------------------
(* zod issues: each names the path of the offending value *)

Issue(path, message) == [path |-> path, message |-> message]

\* the key of an array element in an issue path
IndexKey(i) == <<"0", "1", "2", "3">>[i]

\* z.string() on a property that must be present
Required(o, path) ==
    IF Has(o) THEN <<>> ELSE <<Issue(path, "Required")>>

\* z.string().min(1, message)
MinOneIssues(o, path, message) ==
    IF ~Has(o) THEN <<Issue(path, "Required")>>
    ELSE IF Len(Val(o)) < 1 THEN <<Issue(path, message)>>
    ELSE <<>>

\* z.string().<format>(message).optional().or(z.literal(''))
OptionalFormatIssues(o, ok(_), path, message) ==
    IF ~Has(o) THEN <<>>
    ELSE IF IsEmptyStr(Val(o)) \/ ok(Val(o)) THEN <<>>
    ELSE <<Issue(path, message)>>

\* an element schema that also lets the empty string pass
RECURSIVE PhotoIssuesOrEmpty(_, _)
PhotoIssuesOrEmpty(urls, i) ==
    IF i > Len(urls) THEN <<>>
    ELSE (IF IsUrl(urls[i]) \/ IsEmptyStr(urls[i]) THEN <<>>
          ELSE <<Issue(<<"photosUrls", IndexKey(i)>>, "Invalid photo URL")>>)
         \o PhotoIssuesOrEmpty(urls, i + 1)

\* z.array(z.string().url('Invalid photo URL')), element by element
RECURSIVE PhotoIssues(_, _)
PhotoIssues(urls, i) ==
    IF i > Len(urls) THEN <<>>
    ELSE (IF IsUrl(urls[i]) THEN <<>>
          ELSE <<Issue(<<"photosUrls", IndexKey(i)>>, "Invalid photo URL")>>)
         \o PhotoIssues(urls, i + 1)

\* z.array(z.string()) on a property that must be present
ArrayIssues(o, path) == Required(o, path)

\* z.number().min(lo).max(hi).optional()
RangeIssues(o, lo, hi, path) ==
    IF ~Has(o) THEN <<>>
    ELSE IF Val(o) < lo THEN <<Issue(path, "Too small")>>
    ELSE IF Val(o) > hi THEN <<Issue(path, "Too big")>>
    ELSE <<>>

\* z.string().regex(/^\d{2}:\d{2}$/, ...) of one open / close property;
\* optional tells whether the schema appends .optional()
TimeIssues(o, path, optional) ==
    IF ~Has(o)
    THEN (IF optional THEN <<>> ELSE <<Issue(path, "Required")>>)
    ELSE IF IsHHMM(Val(o)) THEN <<>>
    ELSE <<Issue(path, "Time must be in HH:MM format")>>

\* z.record(z.string(), z.object({open, close, closed})) over the day entries
RECURSIVE HoursEntriesIssues(_, _, _)
HoursEntriesIssues(hours, i, optional) ==
    IF i > Len(hours) THEN <<>>
    ELSE TimeIssues(hours[i].open, <<"operatingHours", hours[i].day, "open">>, optional)
         \o TimeIssues(hours[i].close, <<"operatingHours", hours[i].day, "close">>, optional)
         \o HoursEntriesIssues(hours, i + 1, optional)

\* validate-place.ts: open and close are required strings, closed is optional
operatingHoursSchema(o) ==
    IF ~Has(o) THEN <<Issue(<<"operatingHours">>, "Required")>>
    ELSE HoursEntriesIssues(Val(o), 1, FALSE)

PriceRanges == {Rep("$", 1), Rep("$", 2), Rep("$", 3), Rep("$", 4)}

\* z.enum(['$', '$$', '$$$', '$$$$'], {message})
PriceRangeIssues(o) ==
    IF Has(o) /\ Val(o) \in PriceRanges THEN <<>>
    ELSE <<Issue(<<"priceRange">>, "Price range must be $, $$, $$$, or $$$$")>>

\* z.string().min(1, 'Slug is required').regex(kebab, 'Slug must be kebab-case'):
\* zod runs every check of a string, so the empty slug gets both issues
SlugIssues(o) ==
    IF ~Has(o) THEN <<Issue(<<"slug">>, "Required")>>
    ELSE (IF Len(Val(o)) < 1 THEN <<Issue(<<"slug">>, "Slug is required")>> ELSE <<>>)
         \o (IF IsKebab(Val(o)) THEN <<>>
             ELSE <<Issue(<<"slug">>, "Slug must be kebab-case")>>)

DescriptionMin == 10

\* a length check that also refuses a description of exactly the minimum
DescriptionIssuesStrict(o) ==
    IF ~Has(o) THEN <<Issue(<<"description">>, "Required")>>
    ELSE IF Len(Val(o)) <= DescriptionMin
         THEN <<Issue(<<"description">>, "Description must be at least 10 characters")>>
    ELSE <<>>

\* z.string().min(10, ...)
DescriptionIssues(o) ==
    IF ~Has(o) THEN <<Issue(<<"description">>, "Required")>>
    ELSE IF Len(Val(o)) < DescriptionMin
         THEN <<Issue(<<"description">>, "Description must be at least 10 characters")>>
    ELSE <<>>

\* z.string().uuid(message)
UuidIssues(o, message) ==
    IF ~Has(o) THEN <<Issue(<<"id">>, "Required")>>
    ELSE IF IsUuid(Val(o)) THEN <<>>
    ELSE <<Issue(<<"id">>, message)>>

\* z.array(z.string()).min(1, ...)
CuisineIssues(o) ==
    IF ~Has(o) THEN <<Issue(<<"cuisineTypes">>, "Required")>>
    ELSE IF Len(Val(o)) < 1
         THEN <<Issue(<<"cuisineTypes">>, "At least one cuisine type is required")>>
    ELSE <<>>

\* z.string().datetime(message)
DatetimeIssues(o, path, message) ==
    IF ~Has(o) THEN <<Issue(path, "Required")>>
    ELSE IF IsDatetime(Val(o)) THEN <<>>
    ELSE <<Issue(path, message)>>

\* placeSchema.parse(data): the issues in the order of the schema's keys.
\* phone, verified and the keys the schema does not name raise no issue.
placeSchema(d) ==
    UuidIssues(d.id, "ID must be a valid UUID")
    \o MinOneIssues(d.name, <<"name">>, "Name is required")
    \o SlugIssues(d.slug)
    \o DescriptionIssues(d.description)
    \o MinOneIssues(d.address, <<"address">>, "Address is required")
    \o OptionalFormatIssues(d.email, IsEmail, <<"email">>, "Invalid email format")
    \o OptionalFormatIssues(d.website, IsUrl, <<"website">>, "Invalid URL format")
    \o OptionalFormatIssues(d.logoUrl, IsUrl, <<"logoUrl">>, "Invalid logo URL")
    \o OptionalFormatIssues(d.coverImageUrl, IsUrl, <<"coverImageUrl">>,
                            "Invalid cover image URL")
    \o (IF Has(d.photosUrls) THEN PhotoIssues(Val(d.photosUrls), 1)
        ELSE <<Issue(<<"photosUrls">>, "Required")>>)
    \o operatingHoursSchema(d.operatingHours)
    \o PriceRangeIssues(d.priceRange)
    \o ArrayIssues(d.paymentMethods, <<"paymentMethods">>)
    \o ArrayIssues(d.tags, <<"tags">>)
    \o ArrayIssues(d.amenities, <<"amenities">>)
    \o CuisineIssues(d.cuisineTypes)
    \o ArrayIssues(d.specialties, <<"specialties">>)
    \o RangeIssues(d.latitude, -90, 90, <<"latitude">>)
    \o RangeIssues(d.longitude, -180, 180, <<"longitude">>)
    \o DatetimeIssues(d.createdAt, <<"createdAt">>, "Invalid createdAt timestamp")
    \o DatetimeIssues(d.updatedAt, <<"updatedAt">>, "Invalid updatedAt timestamp")
    \o RangeIssues(d.rating, 0, 5, <<"rating">>)
    \o (IF Has(d.reviewCount) /\ Val(d.reviewCount) < 0
        THEN <<Issue(<<"reviewCount">>, "Too small")>> ELSE <<>>)

----------------------------------------------------------------------------
(* validate-place.ts: files, validatePlaceFile, validateAllPlaces, main *)

\* A file of the file system: its name, what reading and JSON.parse give
\* ("json": an object, "nonobject": JSON that is no object, "malformed":
\* JSON.parse throws SyntaxError, "unreadable": readFileSync throws), and the
\* parsed object.
File(base, ext, kind, data) ==
    [base |-> base, ext |-> ext, kind |-> kind, data |-> data]

\* String.prototype.endsWith('.json') on a file name
EndsWithJson(f) == f.ext = ".json"

\* a validator without the SyntaxError branch: the parse error is re-thrown
validatePlaceFileNoSyntaxBranch(f) ==
    CASE f.kind \in {"unreadable", "malformed"} ->
            [filePath |-> f.base, valid |-> FALSE, errors |-> <<>>, threw |-> TRUE]
      [] f.kind = "nonobject" ->
            [filePath |-> f.base, valid |-> FALSE,
             errors |-> <<Issue(<<>>, "Expected object")>>, threw |-> FALSE]
      [] OTHER ->
            [filePath |-> f.base,
             valid |-> placeSchema(f.data) = <<>>,
             errors |-> placeSchema(f.data),
             threw |-> FALSE]

\* a validator that reports only the first issue zod found
validatePlaceFileFirstIssue(f) ==
    CASE f.kind = "unreadable" ->
            [filePath |-> f.base, valid |-> FALSE, errors |-> <<>>, threw |-> TRUE]
      [] f.kind = "malformed" ->
            [filePath |-> f.base, valid |-> FALSE,
             errors |-> <<Issue(<<>>, "JSON parse error")>>, threw |-> FALSE]
      [] f.kind = "nonobject" ->
            [filePath |-> f.base, valid |-> FALSE,
             errors |-> <<Issue(<<>>, "Expected object")>>, threw |-> FALSE]
      [] OTHER ->
            [filePath |-> f.base,
             valid |-> placeSchema(f.data) = <<>>,
             errors |-> IF placeSchema(f.data) = <<>> THEN <<>>
                        ELSE <<Head(placeSchema(f.data))>>,
             threw |-> FALSE]

\* validatePlaceFile(filePath); threw marks the error it re-throws (line 115)
validatePlaceFile(f) ==
    CASE f.kind = "unreadable" ->
            [filePath |-> f.base, valid |-> FALSE, errors |-> <<>>, threw |-> TRUE]
      [] f.kind = "malformed" ->
            [filePath |-> f.base, valid |-> FALSE,
             errors |-> <<Issue(<<>>, "JSON parse error")>>, threw |-> FALSE]
      [] f.kind = "nonobject" ->
            [filePath |-> f.base, valid |-> FALSE,
             errors |-> <<Issue(<<>>, "Expected object")>>, threw |-> FALSE]
      [] OTHER ->
            [filePath |-> f.base,
             valid |-> placeSchema(f.data) = <<>>,
             errors |-> placeSchema(f.data),
             threw |-> FALSE]

\* Array.prototype.filter, keeping the order
RECURSIVE JsonFiles(_)
JsonFiles(fs) ==
    IF fs = <<>> THEN <<>>
    ELSE (IF EndsWithJson(Head(fs)) THEN <<Head(fs)>> ELSE <<>>) \o JsonFiles(Tail(fs))

\* validateAllPlaces(placesDir): files.map(validatePlaceFile)
validateAllPlaces(fs) ==
    [i \in 1..Len(JsonFiles(fs)) |-> validatePlaceFile(JsonFiles(fs)[i])]

\* an error thrown inside files.map leaves main without any result
Throws(rs) == \E i \in 1..Len(rs) : rs[i].threw

\* a filter that keeps every result
CountValidAll(rs) == Len(rs)

RECURSIVE CountValid(_)
CountValid(rs) ==
    IF rs = <<>> THEN 0
    ELSE (IF Head(rs).valid THEN 1 ELSE 0) + CountValid(Tail(rs))

CountInvalid(rs) == Len(rs) - CountValid(rs)

\* main(): argument check, existence check, directory or file, summary, exit
Main ==
    /\ vpc = "start"
    /\ LET rs == CASE target.kind = "dir"  -> validateAllPlaces(target.files)
                   [] target.kind = "file" -> <<validatePlaceFile(target.files[1])>>
                   [] OTHER                -> <<>>
       IN  IF target.kind \notin {"dir", "file"}
           THEN /\ results' = <<>>
                /\ vpc' = "usage"
                /\ exitCode' = 1
           ELSE IF Throws(rs)
           THEN /\ results' = <<>>
                /\ vpc' = "threw"
                /\ exitCode' = 1
           ELSE /\ results' = rs
                /\ vpc' = "done"
                /\ exitCode' = IF CountInvalid(rs) > 0 THEN 1 ELSE 0
    /\ UNCHANGED <<target, pvars>>

----------------------------------------------------------------------------
(* csrf: validateCsrfToken, requireCsrfToken *)

\* String.prototype.charCodeAt of the characters of a secret
CharCode(c) == IF c = "0" THEN 48 ELSE 102

RECURSIVE BitXor(_, _)
BitXor(a, b) ==
    IF a = 0 /\ b = 0 THEN 0
    ELSE (((a % 2) + (b % 2)) % 2) + 2 * BitXor(a \div 2, b \div 2)

RECURSIVE BitOr(_, _)
BitOr(a, b) ==
    IF a = 0 /\ b = 0 THEN 0
    ELSE (IF (a % 2) = 1 \/ (b % 2) = 1 THEN 1 ELSE 0) + 2 * BitOr(a \div 2, b \div 2)

\* the loop of timingSafeEqual: result |= a.charCodeAt(i) ^ b.charCodeAt(i)
RECURSIVE XorFold(_, _, _, _)
XorFold(a, b, i, result) ==
    IF i > Len(a) THEN result
    ELSE LET next == BitOr(result, BitXor(CharCode(a[i]), CharCode(b[i])))
         IN  IF next = 0 THEN XorFold(a, b, i + 1, 0) ELSE XorFold(a, b, i + 1, next)

\* a comparison that stops at the lengths
lengthOnlyEqual(a, b) == Len(a) = Len(b)

timingSafeEqual(a, b) ==
    IF Len(a) # Len(b) THEN FALSE ELSE XorFold(a, b, 1, 0) = 0

verifyCsrfToken(secret, token) == timingSafeEqual(secret, token)

\* a JavaScript string is falsy exactly when it is missing or empty
Falsy(o) == ~Has(o) \/ Len(Val(o)) = 0

\* validateCsrfToken(request): secret cookie, then token header, then compare
validateCsrfToken(req) ==
    IF Falsy(req.cookie) THEN FALSE
    ELSE IF Falsy(req.header) THEN FALSE
    ELSE verifyCsrfToken(Val(req.cookie), Val(req.header))

\* requireCsrfToken(request): the 403 response, or null
requireCsrfToken(req) == IF validateCsrfToken(req) THEN None ELSE Some(403)

----------------------------------------------------------------------------
(* rate limiter: RateLimiter.check, RateLimiter.cleanup, getClientIP *)

Limit == 5

WindowMs == 3600000

CleanupSize == 1000

\* timestamps.filter(timestamp => now - timestamp < windowMs)
RECURSIVE Recent(_, _)
Recent(ts, now) ==
    IF ts = <<>> THEN <<>>
    ELSE (IF now - Head(ts) < WindowMs THEN <<Head(ts)>> ELSE <<>>)
         \o Recent(Tail(ts), now)

\* this.requests.get(identifier) || []
Stored(reqs, identifier) ==
    IF identifier \in DOMAIN reqs THEN reqs[identifier] ELSE <<>>

\* Map.prototype.set
MapSet(m, k, v) == [x \in DOMAIN m \cup {k} |-> IF x = k THEN v ELSE m[x]]

\* a cleanup that empties the map
cleanupClears(reqs, now) == [i \in {} |-> <<>>]

\* cleanup(): drop the old timestamps, and the identifiers left with none
cleanup(reqs, now) ==
    [i \in {j \in DOMAIN reqs : Recent(reqs[j], now) # <<>>} |-> Recent(reqs[i], now)]

\* a check that refuses one request too late
CheckAllowsOneMore(reqs, identifier, now) ==
    Len(Recent(Stored(reqs, identifier), now)) <= Limit

\* check(identifier): TRUE when the request is let through
CheckAllows(reqs, identifier, now) ==
    Len(Recent(Stored(reqs, identifier), now)) < Limit

\* a check that records the attempts it refuses as well
CheckMapRecordsRefusals(reqs, identifier, now) ==
    MapSet(reqs, identifier, Append(Recent(Stored(reqs, identifier), now), now))

\* check(identifier): the map after the call
CheckMap(reqs, identifier, now) ==
    IF ~CheckAllows(reqs, identifier, now) THEN reqs
    ELSE LET set == MapSet(reqs, identifier,
                           Append(Recent(Stored(reqs, identifier), now), now))
         IN  IF Cardinality(DOMAIN set) > CleanupSize THEN cleanup(set, now) ELSE set

\* one call of rateLimiter.check(identifier)
Check(identifier) ==
    /\ accepted' = IF CheckAllows(requests, identifier, clock)
                   THEN Append(accepted, <<identifier, clock>>)
                   ELSE accepted
    /\ requests' = CheckMap(requests, identifier, clock)
    /\ UNCHANGED <<clock, places, proposal, response, nextUuid>>

\* checkRateLimit(identifier) of lib/rate-limiter: rateLimiter.check(identifier)
checkRateLimit(reqs, identifier, now) == CheckAllows(reqs, identifier, now)

\* getClientIP(request): first x-forwarded-for entry, else x-real-ip, else 'unknown'
getClientIP(req) ==
    IF Has(req.forwarded) /\ Len(Val(req.forwarded)) > 0 THEN Val(req.forwarded)[1]
    ELSE IF Has(req.realIp) THEN Val(req.realIp)
    ELSE "unknown"

----------------------------------------------------------------------------
(* create route: generateSlug *)

ToLower(s) == [i \in 1..Len(s) |-> LowerOf(s[i])]

RECURSIVE DropLeading(_, _)
DropLeading(s, class) ==
    IF s # <<>> /\ Head(s) \in class THEN DropLeading(Tail(s), class) ELSE s

RECURSIVE DropTrailing(_, _)
DropTrailing(s, class) ==
    IF s # <<>> /\ s[Len(s)] \in class
    THEN DropTrailing(SubSeq(s, 1, Len(s) - 1), class) ELSE s

\* String.prototype.trim
Trim(s) == DropTrailing(DropLeading(s, SpaceChars), SpaceChars)

\* .replace(/[^\w\s-]/g, '')
RemoveSpecial(s) == SelectSeq(s, LAMBDA c : c \in WordChars \cup SpaceChars \cup {"-"})

\* .replace(/<class>+/g, '-'): every maximal run of class characters becomes one hyphen
RECURSIVE RunsToHyphen(_, _)
RunsToHyphen(s, class) ==
    IF s = <<>> THEN <<>>
    ELSE IF Head(s) \in class
         THEN <<"-">> \o RunsToHyphen(DropLeading(Tail(s), class), class)
         ELSE <<Head(s)>> \o RunsToHyphen(Tail(s), class)

\* .replace(/^-+|-+$/g, '')
StripHyphens(s) == DropTrailing(DropLeading(s, {"-"}), {"-"})

generateSlug(name) ==
    StripHyphens(RunsToHyphen(RunsToHyphen(RemoveSpecial(Trim(ToLower(name))),
                                           SpaceChars), {"-"}))

----------------------------------------------------------------------------
(* request body schemas of the routes *)

\* the routes' operatingHoursSchema: open and close carry .optional()
routeOperatingHoursSchema(o) ==
    IF ~Has(o) THEN <<Issue(<<"operatingHours">>, "Required")>>
    ELSE HoursEntriesIssues(Val(o), 1, TRUE)

\* the fields the create and the update schema state alike
CommonBodyIssues(b) ==
    MinOneIssues(b.name, <<"name">>, "Name is required")
    \o DescriptionIssues(b.description)
    \o MinOneIssues(b.address, <<"address">>, "Address is required")
    \o routeOperatingHoursSchema(b.operatingHours)
    \o PriceRangeIssues(b.priceRange)
    \o CuisineIssues(b.cuisineTypes)
    \o OptionalFormatIssues(b.email, IsEmail, <<"email">>, "Invalid email format")
    \o OptionalFormatIssues(b.website, IsUrl, <<"website">>, "Invalid URL format")
    \o OptionalFormatIssues(b.logoUrl, IsUrl, <<"logoUrl">>, "Invalid logo URL")
    \o OptionalFormatIssues(b.coverImageUrl, IsUrl, <<"coverImageUrl">>,
                            "Invalid cover image URL")
    \o (IF Has(b.photosUrls) THEN PhotoIssues(Val(b.photosUrls), 1) ELSE <<>>)
    \o RangeIssues(b.latitude, -90, 90, <<"latitude">>)
    \o RangeIssues(b.longitude, -180, 180, <<"longitude">>)

createPlaceRequestSchema(b) ==
    CommonBodyIssues(b)
    \o OptionalFormatIssues(b.contributorEmail, IsEmail, <<"contributorEmail">>,
                            "Invalid email format")

updatePlaceRequestSchema(b) ==
    UuidIssues(b.id, "Valid UUID required")
    \o MinOneIssues(b.slug, <<"slug">>, "Slug is required")
    \o CommonBodyIssues(b)
    \o MinOneIssues(b.contributorName, <<"contributorName">>,
                    "Contributor name is required")
    \o OptionalFormatIssues(b.contributorEmail, IsEmail, <<"contributorEmail">>,
                            "Invalid email format")

deletePlaceRequestSchema(b) ==
    MinOneIssues(b.slug, <<"slug">>, "Slug is required")
    \o MinOneIssues(b.name, <<"name">>, "Name is required")
    \o OptionalFormatIssues(b.contributorEmail, IsEmail, <<"contributorEmail">>,
                            "Invalid email format")

\* z.array(...).default([])
DefaultEmpty(o) == IF Has(o) THEN o ELSE Some(<<>>)

\* value || undefined, on a format-tagged string
OrUndefined(o) == IF Has(o) /\ ~IsEmptyStr(Val(o)) THEN o ELSE None

----------------------------------------------------------------------------
(* the Place objects the routes build *)

\* the properties both routes copy from the validated body
PlaceFromBody(data, id, slug, createdAt, now, createdBy, contributors) ==
    [id             |-> id,
     name           |-> data.name,
     slug           |-> slug,
     description    |-> data.description,
     address        |-> data.address,
     phone          |-> data.phone,
     email          |-> OrUndefined(data.email),
     website        |-> OrUndefined(data.website),
     logoUrl        |-> OrUndefined(data.logoUrl),
     coverImageUrl  |-> OrUndefined(data.coverImageUrl),
     photosUrls     |-> DefaultEmpty(data.photosUrls),
     operatingHours |-> data.operatingHours,
     priceRange     |-> data.priceRange,
     paymentMethods |-> DefaultEmpty(data.paymentMethods),
     tags           |-> DefaultEmpty(data.tags),
     amenities      |-> DefaultEmpty(data.amenities),
     cuisineTypes   |-> data.cuisineTypes,
     specialties    |-> DefaultEmpty(data.specialties),
     latitude       |-> data.latitude,
     longitude      |-> data.longitude,
     createdAt      |-> createdAt,
     updatedAt      |-> Some(toISOString(now)),
     rating         |-> None,
     reviewCount    |-> None,
     verified       |-> None,
     createdBy      |-> createdBy,
     contributors   |-> contributors]

\* uuidv4() for the k-th time: an id no record and no earlier call carries
uuidv4(k) == Str("uuid", 100 + k)

\* create route, lines 479-510: fresh id, generated slug, both timestamps now,
\* neither createdBy nor contributors
CreatedPlace(data, k, now) ==
    PlaceFromBody(data, Some(uuidv4(k)), Some(generateSlug(Val(data.name))),
                  Some(toISOString(now)), now, None, None)

Anonymous == <<"A", "n", "o", "n", "y", "m", "o", "u", "s">>

\* update route, lines 135-142
NewContributor(data, now) ==
    [name          |-> Val(data.contributorName),
     email         |-> OrUndefined(data.contributorEmail),
     github        |-> OrUndefined(data.contributorGithub),
     contributedAt |-> toISOString(now),
     action        |-> "updated"]

\* existingPlace.contributors || []
ExistingContributors(existing) ==
    IF Has(existing.contributors) THEN Val(existing.contributors) ELSE <<>>

\* an update that stamps the record as if it were new
UpdatedPlaceRestamped(data, existing, now) ==
    PlaceFromBody(data, data.id, data.slug, Some(toISOString(now)), now,
                  IF Falsy(existing.createdBy) THEN Some(Anonymous)
                  ELSE existing.createdBy,
                  Some(Append(ExistingContributors(existing),
                              NewContributor(data, now))))

\* update route, lines 148-173: id and slug of the body, createdAt of the
\* existing record, createdBy of the existing record or 'Anonymous'
UpdatedPlace(data, existing, now) ==
    PlaceFromBody(data, data.id, data.slug, existing.createdAt, now,
                  IF Falsy(existing.createdBy) THEN Some(Anonymous)
                  ELSE existing.createdBy,
                  Some(Append(ExistingContributors(existing),
                              NewContributor(data, now))))

\* getPlaceBySlug(slug): the record of the file named after the slug, or null
getPlaceBySlug(slug) ==
    IF slug \in DOMAIN places THEN Some(places[slug]) ELSE None

----------------------------------------------------------------------------
(* lib/github: what a successful call proposes as a pull request *)

Proposal(kind, file, content) == [kind |-> kind, file |-> file, content |-> content]

\* createPlacePR(options): files {places/<slug>.json: JSON.stringify(place)};
\* github is "ok" when the token is configured and the GitHub call succeeds
createPlacePR(place, github) ==
    IF github = "ok" THEN Some(Proposal("create", Val(place.slug), Some(place)))
    ELSE None

updatePlacePR(place, github) ==
    IF github = "ok" THEN Some(Proposal("update", Val(place.slug), Some(place)))
    ELSE None

\* deletePlacePR(options): getContent throws when places/<slug>.json is missing
deletePlacePR(slug, github) ==
    IF github = "ok" /\ slug \in DOMAIN places
    THEN Some(Proposal("delete", slug, None))
    ELSE None

----------------------------------------------------------------------------
(* the POST handlers of the three routes *)

\* what a handler did: stage is the last step it reached ("csrf", "limit",
\* "body", "lookup", "pr"), handed the Place given to the pull-request call,
\* existing the record getPlaceBySlug returned
Response(route, status, stage, identifier, handed, existing) ==
    [route |-> route, status |-> status, stage |-> stage,
     identifier |-> identifier, handed |-> handed, existing |-> existing]

NoResponse == Response("none", 0, "none", "none", None, None)

\* lines 443-446: the CSRF check answers 403 before anything else runs
RejectCsrf(route) ==
    /\ response' = Response(route, 403, "csrf", "none", None, None)
    /\ UNCHANGED <<requests, accepted, places, proposal, nextUuid, clock>>

\* lines 449-460: checkRateLimit(clientIP) records the request when it allows it
RateLimitStep(req) ==
    /\ requests' = CheckMap(requests, getClientIP(req), clock)
    /\ accepted' = IF checkRateLimit(requests, getClientIP(req), clock)
                   THEN Append(accepted, <<getClientIP(req), clock>>)
                   ELSE accepted

\* a create handler that validates the body before it asks the rate limiter
CreatePostValidatesFirst(req) ==
    IF Has(requireCsrfToken(req)) THEN RejectCsrf("create")
    ELSE
      LET ip     == getClientIP(req)
          issues == createPlaceRequestSchema(req.body)
          place  == CreatedPlace(req.body, nextUuid, clock)
          pr     == createPlacePR(place, req.github)
      IN  /\ UNCHANGED <<places, clock>>
          /\ IF req.bodyKind = "malformed" \/ issues # <<>>
             THEN /\ response' = Response("create", 400, "body", ip, None, None)
                  /\ UNCHANGED <<requests, accepted, proposal, nextUuid>>
             ELSE IF ~checkRateLimit(requests, ip, clock)
             THEN /\ response' = Response("create", 429, "limit", ip, None, None)
                  /\ UNCHANGED <<requests, accepted, proposal, nextUuid>>
             ELSE /\ RateLimitStep(req)
                  /\ nextUuid' = nextUuid + 1
                  /\ response' = Response("create", IF Has(pr) THEN 200 ELSE 500,
                                          "pr", ip, Some(place), None)
                  /\ proposal' = IF Has(pr) THEN pr ELSE proposal

\* POST of api/places/create-pr
CreatePost(req) ==
    IF Has(requireCsrfToken(req)) THEN RejectCsrf("create")
    ELSE
      LET ip     == getClientIP(req)
          issues == createPlaceRequestSchema(req.body)
          place  == CreatedPlace(req.body, nextUuid, clock)
          pr     == createPlacePR(place, req.github)
      IN  /\ RateLimitStep(req)
          /\ UNCHANGED <<places, clock>>
          /\ IF ~checkRateLimit(requests, ip, clock)
             THEN /\ response' = Response("create", 429, "limit", ip, None, None)
                  /\ UNCHANGED <<proposal, nextUuid>>
             ELSE IF req.bodyKind = "malformed" \/ issues # <<>>
             THEN /\ response' = Response("create", 400, "body", ip, None, None)
                  /\ UNCHANGED <<proposal, nextUuid>>
             ELSE /\ nextUuid' = nextUuid + 1
                  /\ response' = Response("create", IF Has(pr) THEN 200 ELSE 500,
                                          "pr", ip, Some(place), None)
                  /\ proposal' = IF Has(pr) THEN pr ELSE proposal

\* an update handler that looks the record up before it validates the body
UpdatePostLookupFirst(req) ==
    IF Has(requireCsrfToken(req)) THEN RejectCsrf("update")
    ELSE
      LET ip       == getClientIP(req)
          issues   == updatePlaceRequestSchema(req.body)
          existing == getPlaceBySlug(Val(req.body.slug))
          place    == UpdatedPlace(req.body, Val(existing), clock)
          pr       == updatePlacePR(place, req.github)
      IN  /\ RateLimitStep(req)
          /\ UNCHANGED <<places, clock, nextUuid>>
          /\ IF ~checkRateLimit(requests, ip, clock)
             THEN /\ response' = Response("update", 429, "limit", ip, None, None)
                  /\ UNCHANGED proposal
             ELSE IF ~Has(existing)
             THEN /\ response' = Response("update", 404, "lookup", ip, None, None)
                  /\ UNCHANGED proposal
             ELSE IF req.bodyKind = "malformed" \/ issues # <<>>
             THEN /\ response' = Response("update", 400, "body", ip, None, None)
                  /\ UNCHANGED proposal
             ELSE /\ response' = Response("update", IF Has(pr) THEN 200 ELSE 500,
                                          "pr", ip, Some(place), existing)
                  /\ proposal' = IF Has(pr) THEN pr ELSE proposal

\* POST of api/places/update-pr
UpdatePost(req) ==
    IF Has(requireCsrfToken(req)) THEN RejectCsrf("update")
    ELSE
      LET ip       == getClientIP(req)
          issues   == updatePlaceRequestSchema(req.body)
          existing == getPlaceBySlug(Val(req.body.slug))
          place    == UpdatedPlace(req.body, Val(existing), clock)
          pr       == updatePlacePR(place, req.github)
      IN  /\ RateLimitStep(req)
          /\ UNCHANGED <<places, clock, nextUuid>>
          /\ IF ~checkRateLimit(requests, ip, clock)
             THEN /\ response' = Response("update", 429, "limit", ip, None, None)
                  /\ UNCHANGED proposal
             ELSE IF req.bodyKind = "malformed" \/ issues # <<>>
             THEN /\ response' = Response("update", 400, "body", ip, None, None)
                  /\ UNCHANGED proposal
             ELSE IF ~Has(existing)
             THEN /\ response' = Response("update", 404, "lookup", ip, None, None)
                  /\ UNCHANGED proposal
             ELSE /\ response' = Response("update", IF Has(pr) THEN 200 ELSE 500,
                                          "pr", ip, Some(place), existing)
                  /\ proposal' = IF Has(pr) THEN pr ELSE proposal

\* POST of api/places/delete-pr
DeletePost(req) ==
    IF Has(requireCsrfToken(req)) THEN RejectCsrf("delete")
    ELSE
      LET ip     == getClientIP(req)
          issues == deletePlaceRequestSchema(req.body)
          pr     == deletePlacePR(Val(req.body.slug), req.github)
      IN  /\ RateLimitStep(req)
          /\ UNCHANGED <<places, clock, nextUuid>>
          /\ IF ~checkRateLimit(requests, ip, clock)
             THEN /\ response' = Response("delete", 429, "limit", ip, None, None)
                  /\ UNCHANGED proposal
             ELSE IF req.bodyKind = "malformed" \/ issues # <<>>
             THEN /\ response' = Response("delete", 400, "body", ip, None, None)
                  /\ UNCHANGED proposal
             ELSE /\ response' = Response("delete", IF Has(pr) THEN 200 ELSE 500,
                                          "pr", ip, None, None)
                  /\ proposal' = IF Has(pr) THEN pr ELSE proposal

\* a maintainer merges the open pull request into main: the file is written,
\* or removed
Merge ==
    /\ Has(proposal)
    /\ LET p == Val(proposal)
       IN  places' = IF p.kind = "delete"
                     THEN [s \in DOMAIN places \ {p.file} |-> places[s]]
                     ELSE MapSet(places, p.file, Val(p.content))
    /\ proposal' = None
    /\ UNCHANGED <<clock, requests, accepted, response, nextUuid>>

\* time passes between requests
Tick(d) ==
    /\ clock' = clock + d
    /\ UNCHANGED <<requests, accepted, places, proposal, response, nextUuid>>

----------------------------------------------------------------------------
(* Stats scripts: scripts/build-stats.ts, and scripts/generate-stats.js    *)
(* which reads the merged places.json                                      *)

\* the UTF-16 code unit of a character
CodeUnit(c) ==
    CASE c = "$" -> 36 [] c = "W" -> 87 [] c = "a" -> 97 [] c = "c" -> 99
      [] c = "f" -> 102 [] c = "g" -> 103 [] c = "i" -> 105 [] c = "k" -> 107
      [] c = "t" -> 116 [] c = "w" -> 119
      [] c = "-" -> 45 [] c = "." -> 46 [] c = "0" -> 48 [] c = "1" -> 49
      [] c = "2" -> 50 [] c = "3" -> 51 [] c = "e" -> 101 [] c = "j" -> 106
      [] c = "l" -> 108 [] c = "n" -> 110 [] c = "o" -> 111 [] c = "p" -> 112
      [] c = "s" -> 115

\* the order Array.prototype.sort() uses without a comparator: strings are
\* compared by their sequences of UTF-16 code units
RECURSIVE SortCompareLess(_, _)
SortCompareLess(a, b) ==
    IF b = <<>> THEN FALSE
    ELSE IF a = <<>> THEN TRUE
    ELSE IF CodeUnit(Head(a)) < CodeUnit(Head(b)) THEN TRUE
    ELSE IF CodeUnit(Head(a)) > CodeUnit(Head(b)) THEN FALSE
    ELSE SortCompareLess(Tail(a), Tail(b))

\* x put into a sorted array, behind the elements that do not follow it
RECURSIVE SortInsert(_, _)
SortInsert(sorted, x) ==
    IF sorted = <<>> THEN <<x>>
    ELSE IF SortCompareLess(x, Head(sorted)) THEN <<x>> \o sorted
    ELSE <<Head(sorted)>> \o SortInsert(Tail(sorted), x)

\* an array left in the order of insertion
Unsorted(arr) == arr

\* Array.prototype.sort(), a stable sort
RECURSIVE sort(_)
sort(arr) ==
    IF arr = <<>> THEN <<>>
    ELSE SortInsert(sort(SubSeq(arr, 1, Len(arr) - 1)), arr[Len(arr)])

\* a collection that keeps every value it is given
PushValue(set, v) == Append(set, v)

\* Set.prototype.add: a Set holds each value once, in the order of insertion
SetAdd(set, v) ==
    IF \E i \in 1..Len(set) : set[i] = v THEN set ELSE Append(set, v)

\* arr.forEach(v => set.add(v))
RECURSIVE AddEach(_, _)
AddEach(set, arr) ==
    IF arr = <<>> THEN set ELSE AddEach(SetAdd(set, Head(arr)), Tail(arr))

\* a string property that is truthy: present and not ''
Truthy(o) == Has(o) /\ Val(o) # <<>>

\* the five Sets before the first record
EmptySets ==
    [priceRanges |-> <<>>, paymentMethods |-> <<>>, cuisineTypes |-> <<>>,
     amenities |-> <<>>, tags |-> <<>>]

\* build-stats.ts, the body of the try block: the Sets after one more record
CollectPlace(sets, place) ==
    [priceRanges    |-> IF Truthy(place.priceRange)
                        THEN SetAdd(sets.priceRanges, Val(place.priceRange))
                        ELSE sets.priceRanges,
     paymentMethods |-> IF Has(place.paymentMethods)
                        THEN AddEach(sets.paymentMethods, Val(place.paymentMethods))
                        ELSE sets.paymentMethods,
     cuisineTypes   |-> IF Has(place.cuisineTypes)
                        THEN AddEach(sets.cuisineTypes, Val(place.cuisineTypes))
                        ELSE sets.cuisineTypes,
     amenities      |-> IF Has(place.amenities)
                        THEN AddEach(sets.amenities, Val(place.amenities))
                        ELSE sets.amenities,
     tags           |-> IF Has(place.tags)
                        THEN AddEach(sets.tags, Val(place.tags))
                        ELSE sets.tags]

\* build-stats.ts, files.forEach: a file that cannot be read or parsed is
\* counted in errorCount, every other file in successCount
RECURSIVE ReadEach(_, _)
ReadEach(acc, files) ==
    IF files = <<>> THEN acc
    ELSE ReadEach(
            IF Head(files).kind = "json"
            THEN [sets         |-> CollectPlace(acc.sets, Head(files).data),
                  successCount |-> acc.successCount + 1,
                  errorCount   |-> acc.errorCount]
            ELSE [acc EXCEPT !.errorCount = @ + 1],
            Tail(files))

\* the Stats object both scripts build from the Sets
Stats(sets, totalPlaces, now) ==
    [totalPlaces     |-> totalPlaces,
     uniqueCuisines  |-> Len(sets.cuisineTypes),
     uniqueAmenities |-> Len(sets.amenities),
     uniqueTags      |-> Len(sets.tags),
     priceRanges     |-> sort(sets.priceRanges),
     paymentMethods  |-> sort(sets.paymentMethods),
     cuisineTypes    |-> sort(sets.cuisineTypes),
     amenities       |-> sort(sets.amenities),
     tags            |-> sort(sets.tags),
     generatedAt     |-> toISOString(now)]

\* readdirSync(placesDir).filter(file => file.endsWith('.json') && ...)
StatsFilesOf(listing) == SelectSeq(listing, EndsWithJson)

\* the outcome of one run of a stats script
Ended(exit, out) == [exit |-> exit, out |-> out]

\* a builder that writes what it collected although files failed
buildStatsDespiteErrors(source, listing, now) ==
    IF ~source.exists THEN Ended(1, None)
    ELSE IF StatsFilesOf(listing) = <<>> THEN Ended(1, None)
    ELSE LET read == ReadEach([sets |-> EmptySets, successCount |-> 0,
                               errorCount |-> 0],
                              StatsFilesOf(listing))
         IN  Ended(0, Some(Stats(read.sets, read.successCount, now)))

\* build-stats.ts buildStats(): listing is the order in which readdirSync
\* returned the directory's entries
buildStats(source, listing, now) ==
    IF ~source.exists THEN Ended(1, None)
    ELSE IF StatsFilesOf(listing) = <<>> THEN Ended(1, None)
    ELSE LET read == ReadEach([sets |-> EmptySets, successCount |-> 0,
                               errorCount |-> 0],
                              StatsFilesOf(listing))
         IN  IF read.errorCount > 0 THEN Ended(1, None)
             ELSE Ended(0, Some(Stats(read.sets, read.successCount, now)))

\* generate-stats.js, places.forEach: the Sets after one more record
RECURSIVE CollectAll(_, _)
CollectAll(sets, placesJson) ==
    IF placesJson = <<>> THEN sets
    ELSE CollectAll(
            [cuisineTypes   |-> IF Has(Head(placesJson).cuisineTypes)
                                THEN AddEach(sets.cuisineTypes,
                                             Val(Head(placesJson).cuisineTypes))
                                ELSE sets.cuisineTypes,
             amenities      |-> IF Has(Head(placesJson).amenities)
                                THEN AddEach(sets.amenities,
                                             Val(Head(placesJson).amenities))
                                ELSE sets.amenities,
             tags           |-> IF Has(Head(placesJson).tags)
                                THEN AddEach(sets.tags, Val(Head(placesJson).tags))
                                ELSE sets.tags,
             priceRanges    |-> IF Truthy(Head(placesJson).priceRange)
                                THEN SetAdd(sets.priceRanges,
                                            Val(Head(placesJson).priceRange))
                                ELSE sets.priceRanges,
             paymentMethods |-> IF Has(Head(placesJson).paymentMethods)
                                THEN AddEach(sets.paymentMethods,
                                             Val(Head(placesJson).paymentMethods))
                                ELSE sets.paymentMethods],
            Tail(placesJson))

\* generate-stats.js generateStats(): placesJson is {} or {the array read
\* from places.json}; a missing or malformed places.json ends the script in
\* its catch block
generateStats(placesJson, now) ==
    IF ~Has(placesJson) THEN Ended(1, None)
    ELSE Ended(0, Some(Stats(CollectAll(EmptySets, Val(placesJson)),
                             Len(Val(placesJson)), now)))

\* one run as the history keeps it
Run(script, listing, outcome) ==
    [script |-> script, listing |-> listing, exit |-> outcome.exit,
     out |-> outcome.out]

\* every order in which the entries of a directory can be enumerated
Enumerations(files) ==
    {listing \in [1..Cardinality(files) -> files] :
        \A i, j \in 1..Cardinality(files) : listing[i] = listing[j] => i = j}

\* `tsx scripts/build-stats.ts`: stats.json is overwritten when the run succeeds
BuildStats(listing) ==
    /\ Len(listing) = Cardinality(statsSource.files)
    /\ {listing[i] : i \in 1..Len(listing)} = statsSource.files
    /\ LET outcome == buildStats(statsSource, listing, clock)
       IN  /\ statsJson' = IF outcome.exit = 0 THEN outcome.out ELSE statsJson
           /\ statsPrev' = statsRun
           /\ statsRun' = Some(Run("build-stats", listing, outcome))
    /\ UNCHANGED statsSource

\* `node scripts/generate-stats.js`
GenerateStats ==
    /\ LET outcome == generateStats(statsSource.placesJson, clock)
       IN  /\ statsJson' = IF outcome.exit = 0 THEN outcome.out ELSE statsJson
           /\ statsPrev' = statsRun
           /\ statsRun' = Some(Run("generate-stats",
                                   IF Has(statsSource.placesJson)
                                   THEN Val(statsSource.placesJson) ELSE <<>>,
                                   outcome))
    /\ UNCHANGED statsSource

\* no stats script has run and there is no directory to read
StatsIdle ==
    /\ statsSource = [exists |-> FALSE, files |-> {}, placesJson |-> None]
    /\ statsJson = None
    /\ statsRun = None
    /\ statsPrev = None

----------------------------------------------------------------------------
(* Merge script: scripts/merge-places.js, which writes places.json *)

\* String.prototype.startsWith
startsWith(str, prefix) ==
    /\ Len(prefix) <= Len(str)
    /\ SubSeq(str, 1, Len(prefix)) = prefix

\* String.prototype.endsWith
endsWith(str, suffix) ==
    /\ Len(suffix) <= Len(str)
    /\ SubSeq(str, Len(str) - Len(suffix) + 1, Len(str)) = suffix

\* 'places-'
PlacesPrefix == <<"p", "l", "a", "c", "e", "s", "-">>

\* '.json'
DotJson == <<".", "j", "s", "o", "n">>

\* allFiles.filter(file => file.startsWith('places-') && file.endsWith('.json'))
\*         .sort()
MergeFileNames(allFiles) ==
    sort(SelectSeq(allFiles,
                   LAMBDA file : startsWith(file, PlacesPrefix) /\ endsWith(file, DotJson)))

\* parseInt of a string of decimal digits followed by anything: {} stands for
\* NaN, which a string without a leading digit gives
RECURSIVE ParseDigits(_, _)
ParseDigits(str, n) ==
    IF str = <<>> \/ Head(str) \notin DigitChars THEN n
    ELSE ParseDigits(Tail(str), 10 * n + DigitVal(Head(str)))

parseInt(str) ==
    IF str = <<>> \/ Head(str) \notin DigitChars THEN None
    ELSE Some(ParseDigits(str, 0))

\* the comparator (a, b) => parseInt(a.id) - parseInt(b.id) is negative; a
\* NaN difference counts as 0
IdBefore(a, b) ==
    /\ Has(parseInt(a.id))
    /\ Has(parseInt(b.id))
    /\ Val(parseInt(a.id)) < Val(parseInt(b.id))

\* x put into an array sorted by id, behind the elements that do not follow it
RECURSIVE InsertById(_, _)
InsertById(sorted, x) ==
    IF sorted = <<>> THEN <<x>>
    ELSE IF IdBefore(x, Head(sorted)) THEN <<x>> \o sorted
    ELSE <<Head(sorted)>> \o InsertById(Tail(sorted), x)

\* an array left in the order the files gave
KeepOrder(allPlaces) == allPlaces

\* allPlaces.sort((a, b) => parseInt(a.id) - parseInt(b.id)), a stable sort
RECURSIVE SortById(_)
SortById(allPlaces) ==
    IF allPlaces = <<>> THEN <<>>
    ELSE InsertById(SortById(SubSeq(allPlaces, 1, Len(allPlaces) - 1)),
                    allPlaces[Len(allPlaces)])

\* the file of the directory with that name
FileNamed(source, name) == CHOOSE f \in source : f.name = name

\* for (const file of files): an array adds its elements, an object itself;
\* content that does not parse makes JSON.parse throw
RECURSIVE LoadPlaces(_, _, _)
LoadPlaces(acc, names, source) ==
    IF names = <<>> \/ acc.threw THEN acc
    ELSE LET f == FileNamed(source, Head(names))
         IN  LoadPlaces(
                 CASE f.kind = "array" ->
                         [allPlaces |-> acc.allPlaces \o f.data, threw |-> FALSE]
                   [] f.kind = "object" ->
                         [allPlaces |-> Append(acc.allPlaces, f.data[1]),
                          threw |-> FALSE]
                   [] OTHER -> [allPlaces |-> acc.allPlaces, threw |-> TRUE],
                 Tail(names), source)

\* mergePlaces(): allFiles is what readdirSync returned
mergePlaces(source, allFiles) ==
    LET loaded == LoadPlaces([allPlaces |-> <<>>, threw |-> FALSE],
                             MergeFileNames(allFiles), source)
    IN  IF loaded.threw THEN Ended(1, None)
        ELSE Ended(0, Some(SortById(loaded.allPlaces)))

\* `node scripts/merge-places.js`: places.json is overwritten unless the
\* script ended in its catch block
MergePlaces(allFiles) ==
    /\ Len(allFiles) = Cardinality(mergeSource)
    /\ {allFiles[i] : i \in 1..Len(allFiles)} = {f.name : f \in mergeSource}
    /\ LET outcome == mergePlaces(mergeSource, allFiles)
       IN  /\ mergedJson' = IF outcome.exit = 0 THEN outcome.out ELSE mergedJson
           /\ mergePrev' = mergeRun
           /\ mergeRun' = Some(outcome)
    /\ UNCHANGED mergeSource

\* the merge script has not run and the data directory is empty
MergeIdle ==
    /\ mergeSource = {}
    /\ mergedJson = None
    /\ mergeRun = None
    /\ mergePrev = None

----------------------------------------------------------------------------
(* lib/github: the GitHub calls of deletePlacePR, one by one *)

\* delete-place-${slug}-${Date.now()}
BranchName(slug, now) == <<slug, now>>

Repo(main, branches, pulls, now) ==
    [main |-> main, branches |-> branches, pulls |-> pulls, now |-> now]

\* what deletePlacePR returned, with the calls that succeeded, in order
DeleteReturn(success, slug, calls) ==
    [success |-> success, slug |-> slug, calls |-> calls]

\* deletePlacePR(options), lines 281-396: the repository after the call and
\* what the call returned. pat: GITHUB_PAT is set; fault: the call GitHub
\* fails ("none" when it fails none). createRef also throws when the branch
\* exists, getContent when the branch holds no places/<slug>.json; the catch
\* block undoes nothing
deletePlacePRCalls(r, slug, pat, fault) ==
    LET branchName == BranchName(slug, r.now)
        created == [r EXCEPT !.branches = (branchName :> r.main) @@ r.branches]
        deleted == [created EXCEPT !.branches[branchName] = @ \ {slug}]
        opened  == [deleted EXCEPT !.pulls = @ \cup {branchName}]
    IN  IF ~pat THEN <<r, DeleteReturn(FALSE, slug, <<>>)>>
        ELSE IF fault = "getRef" THEN <<r, DeleteReturn(FALSE, slug, <<>>)>>
        ELSE IF fault = "createRef" \/ branchName \in DOMAIN r.branches
             THEN <<r, DeleteReturn(FALSE, slug, <<"getRef">>)>>
        ELSE IF fault = "getContent" \/ slug \notin r.main
             THEN <<created, DeleteReturn(FALSE, slug, <<"getRef", "createRef">>)>>
        ELSE IF fault = "deleteFile"
             THEN <<created, DeleteReturn(FALSE, slug,
                                          <<"getRef", "createRef", "getContent">>)>>
        ELSE IF fault = "pulls.create"
             THEN <<deleted, DeleteReturn(FALSE, slug,
                        <<"getRef", "createRef", "getContent", "deleteFile">>)>>
        ELSE <<opened, DeleteReturn(TRUE, slug,
                        <<"getRef", "createRef", "getContent", "deleteFile",
                          "pulls.create">>)>>

\* one call of deletePlacePR
DeletePlacePR(slug, pat, fault) ==
    LET out == deletePlacePRCalls(repo, slug, pat, fault)
    IN  /\ repo' = out[1]
        /\ deleteResult' = Some(out[2])

\* a millisecond passes
Millisecond ==
    /\ repo' = [repo EXCEPT !.now = @ + 1]
    /\ deleteResult' = deleteResult

GithubIdle ==
    /\ repo = Repo({}, <<>>, {}, 0)
    /\ deleteResult = None

----------------------------------------------------------------------------
(* middleware.ts, lib/csrf (getCsrfSecret, generateCsrfToken, setCsrfCookie) *)
(* and lib/csrf-client, for the requests of one browser                      *)

SecretLength == 64

\* getCsrfSecret(request): the secret cookie when it is 64 characters long,
\* else fresh, what generateCsrfSecret() returns
getCsrfSecret(cookie, fresh) ==
    IF ~Falsy(cookie) /\ Len(Val(cookie)) = SecretLength THEN Val(cookie) ELSE fresh

\* generateCsrfToken(secret): the secret is the token
generateCsrfToken(secret) == secret

\* middleware(request): the Set-Cookie (setCsrfCookie) and the x-csrf-token
\* header of the response
middleware(cookie, fresh) ==
    LET secret == getCsrfSecret(cookie, fresh)
    IN  [setCookie |-> Some(secret), token |-> Some(generateCsrfToken(secret))]

\* a request of the browser in flight: kind "page" (any GET the middleware
\* matches), "csrf" (the GET of fetchCsrfToken; thenPost when csrfFetch awaits
\* it), "post" (the POST of csrfFetch)
Request(id, kind, thenPost, cookie, header) ==
    [id |-> id, kind |-> kind, thenPost |-> thenPost, cookie |-> cookie,
     header |-> header]

\* the browser sends a request; credentials: 'same-origin' attaches the cookie
\* the jar holds at that moment
Send(kind, thenPost, header) ==
    /\ network' = network \cup {Request(browser.sent, kind, thenPost,
                                        browser.cookie, header)}
    /\ browser' = [browser EXCEPT !.sent = @ + 1]

\* the page, or anything else on it, requests a path the middleware matches
Navigate == Send("page", FALSE, None)

\* fetchCsrfToken(), called by the page
FetchCsrfToken == Send("csrf", FALSE, None)

\* csrfFetch(url, options): getCsrfToken() returns the cached token, or
\* awaits fetchCsrfToken() first
CsrfFetch ==
    IF Has(browser.csrfToken)
    THEN Send("post", FALSE, browser.csrfToken)
    ELSE Send("csrf", TRUE, None)

\* resetCsrfToken()
ResetCsrfToken ==
    /\ Has(browser.csrfToken)
    /\ browser' = [browser EXCEPT !.csrfToken = None]
    /\ network' = network

\* the server answers request m and the browser receives the answer: the
\* middleware ran on the cookie m carried; the jar takes the Set-Cookie;
\* fetchCsrfToken caches the x-csrf-token header, and a csrfFetch that awaited
\* it sends its POST; a POST is answered 403 by requireCsrfToken, or goes on
Deliver(m, fresh) ==
    LET resp   == middleware(m.cookie, fresh)
        status == IF m.kind # "post" THEN browser.status
                  ELSE IF Has(requireCsrfToken(m)) THEN 403 ELSE 200
        token  == IF m.kind = "csrf" THEN resp.token ELSE browser.csrfToken
        posts  == IF m.kind = "csrf" /\ m.thenPost
                  THEN {Request(browser.sent, "post", FALSE, resp.setCookie, resp.token)}
                  ELSE {}
    IN  /\ m \in network
        /\ browser' = [cookie    |-> resp.setCookie,
                       csrfToken |-> token,
                       sent      |-> browser.sent + Cardinality(posts),
                       status    |-> status]
        /\ network' = (network \ {m}) \cup posts

ClientIdle ==
    /\ browser = [cookie |-> None, csrfToken |-> None, sent |-> 0, status |-> 0]
    /\ network = {}

----------------------------------------------------------------------------
(* Build workflow build-and-deploy.yml, as VALIDATION_WORKFLOW.md describes *)
(* it: re-validate the changed files, build places.json, build stats.json, *)
(* commit the built files, trigger the deployment.  A step that fails ends  *)
(* the run.                                                                *)

\* the exit status of validating the changed files: non-zero when a file is
\* invalid or the validator ends with an uncaught error
ValidationStatus(changed) ==
    LET rs == [i \in 1..Len(changed) |-> validatePlaceFile(changed[i])]
    IN  IF Throws(rs) \/ CountInvalid(rs) > 0 THEN 1 ELSE 0

WorkflowRun(status, changed, direct, steps) ==
    [status |-> status, changed |-> changed, direct |-> direct, steps |-> steps]

WorkflowIdle == workflow = WorkflowRun("idle", <<>>, FALSE, <<>>)

\* commits that change record files reach main, through a merged pull request
\* or, when direct, by a commit that no pull-request validation saw
Push(changed, direct) ==
    /\ workflow.status = "idle"
    /\ changed # <<>>
    /\ workflow' = WorkflowRun("running", changed, direct, <<>>)

\* a step of the run: it is entered once the steps before it succeeded
Step(name, before, failed, last) ==
    /\ workflow.status = "running"
    /\ workflow.steps = before
    /\ workflow' = [workflow EXCEPT
                        !.steps = Append(before, name),
                        !.status = IF failed THEN "failed"
                                   ELSE IF last THEN "done" ELSE "running"]

\* a validation step whose failure does not end the run
ValidateStepContinues == Step("validate", <<>>, FALSE, FALSE)

\* 1. Re-validates changed files
ValidateStep ==
    Step("validate", <<>>, ValidationStatus(workflow.changed) # 0, FALSE)

\* 2. Builds places.json (index)
BuildIndexStep(failed) == Step("index", <<"validate">>, failed, FALSE)

\* 3. Builds stats.json
BuildStatsStep(failed) == Step("stats", <<"validate", "index">>, failed, FALSE)

\* 4. Commits built files back to main
CommitStep(failed) == Step("commit", <<"validate", "index", "stats">>, failed, FALSE)

\* 5. Triggers Vercel deployment
DeployStep == Step("deploy", <<"validate", "index", "stats", "commit">>, FALSE, TRUE)

\* the scripts and parts that a specification leaves aside are idle
OthersIdle == MergeIdle /\ WorkflowIdle /\ GithubIdle /\ ClientIdle

----------------------------------------------------------------------------
(* Input values the specifications draw from *)

Entry(day, open, close, closed) ==
    [day |-> day, open |-> open, close |-> close, closed |-> closed]

T0900 == <<"0", "9", ":", "0", "0">>

T2100 == <<"2", "1", ":", "0", "0">>

T2500 == <<"2", "5", ":", "0", "0">>

T1260 == <<"1", "2", ":", "6", "0">>

T900  == <<"9", ":", "0", "0">>

OpenDay(day) == Entry(day, Some(T0900), Some(T2100), None)

\* {closed: true} with no open and no close
ClosedDay(day) == Entry(day, None, None, Some(TRUE))

\* A record that meets every rule, as the repository's place files do
BasePlace ==
    [id             |-> Some(Str("uuid", 1)),
     name           |-> Some(<<"R", "o">>),
     slug           |-> Some(<<"a">>),
     description    |-> Some(Rep("a", 12)),
     address        |-> Some(<<"1", " ", "a">>),
     phone          |-> Some(Str("text", 1)),
     email          |-> Some(Str("email", 1)),
     website        |-> Some(Str("url", 1)),
     logoUrl        |-> Some(EmptyStr),
     coverImageUrl  |-> None,
     photosUrls     |-> Some(<<Str("url", 2)>>),
     operatingHours |-> Some(<<OpenDay("monday")>>),
     priceRange     |-> Some(Rep("$", 2)),
     paymentMethods |-> Some(<<"cash">>),
     tags           |-> Some(<<>>),
     amenities      |-> Some(<<"wifi">>),
     cuisineTypes   |-> Some(<<"filipino">>),
     specialties    |-> Some(<<>>),
     latitude       |-> Some(14),
     longitude      |-> Some(121),
     createdAt      |-> Some(toISOString(0)),
     updatedAt      |-> Some(toISOString(0)),
     rating         |-> None,
     reviewCount    |-> None,
     verified       |-> None,
     createdBy      |-> None,
     contributors   |-> None]

PlaceFields == DOMAIN BasePlace

MaxSlugLen == 3

SlugChars == {"a", "1", "R", "-", "_"}

\* every string over SlugChars of length 0 .. MaxSlugLen
SlugInputs == UNION {[1..n -> SlugChars] : n \in 0..MaxSlugLen}

Optional(S) == {None} \cup {Some(v) : v \in S}

HoursInputs ==
    {<<>>,
     <<OpenDay("monday")>>,
     <<ClosedDay("monday")>>,
     <<OpenDay("monday"), ClosedDay("sunday")>>,
     <<Entry("monday", Some(T0900), None, None)>>,
     <<Entry("monday", Some(T900), Some(T2100), None)>>,
     <<Entry("monday", Some(T0900), Some(T2500), None)>>,
     <<Entry("monday", Some(T1260), Some(T2100), Some(FALSE))>>,
     <<Entry("monday", Some(T0900), Some(T2100), Some(TRUE))>>}

\* the values a candidate record may carry in field f
FieldInputs(f) ==
    CASE f = "id" ->
            Optional({Str("uuid", 1), Str("uuid", 2), Str("text", 1), EmptyStr})
      [] f \in {"name", "address"} ->
            Optional({<<>>, <<"a">>, <<"R", "o">>})
      [] f = "slug" -> Optional(SlugInputs)
      [] f = "description" ->
            Optional({Rep("a", n) : n \in {0, DescriptionMin - 1, DescriptionMin,
                                           DescriptionMin + 1}})
      [] f = "phone" -> Optional({Str("text", 1), EmptyStr})
      [] f = "email" -> Optional({Str("email", 1), Str("text", 1), EmptyStr})
      [] f \in {"website", "logoUrl", "coverImageUrl"} ->
            Optional({Str("url", 1), Str("text", 1), EmptyStr})
      [] f = "photosUrls" ->
            Optional({<<>>, <<Str("url", 1)>>, <<EmptyStr>>, <<Str("text", 1)>>,
                      <<Str("url", 1), Str("text", 1)>>})
      [] f = "operatingHours" -> Optional(HoursInputs)
      [] f = "priceRange" -> Optional({Rep("$", n) : n \in 0..5})
      [] f \in {"paymentMethods", "tags", "amenities", "specialties"} ->
            Optional({<<>>, <<"x">>, <<"x", "y">>})
      [] f = "cuisineTypes" ->
            Optional({<<>>, <<"filipino">>, <<"filipino", "italian">>})
      [] f = "latitude" -> Optional({-91, -90, 0, 90, 91})
      [] f = "longitude" -> Optional({-181, -180, 0, 180, 181})
      [] f \in {"createdAt", "updatedAt"} ->
            Optional({toISOString(0), toISOString(1), Str("text", 1), EmptyStr})
      [] f = "rating" -> Optional({-1, 0, 5, 6})
      [] f = "reviewCount" -> Optional({-1, 0, 7})
      [] f = "verified" -> Optional({TRUE, FALSE})
      [] f = "createdBy" -> Optional({<<"A">>})
      [] OTHER -> {None}

\* d with one field replaced; the candidate records are BasePlace with one
\* field replaced, or with two
OneOff(d) ==
    UNION {{[d EXCEPT ![f] = v] : v \in FieldInputs(f)} : f \in PlaceFields}

----------------------------------------------------------------------------
(* Requests and the collection the submission pipeline starts from *)

Req(cookie, header, forwarded, realIp, bodyKind, body, github) ==
    [cookie |-> cookie, header |-> header, forwarded |-> forwarded,
     realIp |-> realIp, bodyKind |-> bodyKind, body |-> body, github |-> github]

GoodToken == <<"0", "f">>

\* secrets and tokens: empty, two of one length, one longer with a shared prefix
Tokens == {<<>>, <<"0">>, <<"f">>, GoodToken}

\* the secret cookie and the x-csrf-token header a request may carry
CsrfInputs == {[cookie |-> c, header |-> h] : c \in Optional(Tokens), h \in Optional(Tokens)}

FirstContributor ==
    [name |-> <<"A">>, email |-> None, github |-> None,
     contributedAt |-> toISOString(0), action |-> "created"]

\* rodics-style record with its creator and history
PlaceA ==
    [BasePlace EXCEPT !.createdBy = Some(<<"A">>),
                      !.contributors = Some(<<FirstContributor>>)]

\* a record from before createdBy and contributors existed
PlaceB ==
    [BasePlace EXCEPT !.id = Some(Str("uuid", 2)), !.slug = Some(<<"b">>),
                      !.name = Some(<<"B">>)]

InitialPlaces == (<<"a">> :> PlaceA) @@ (<<"b">> :> PlaceB)

\* a body every route accepts: the form's fields for the place stored as a,
\* with an empty email and no photosUrls
BaseBody ==
    [f \in PlaceFields \cup {"contributorName", "contributorEmail",
                              "contributorGithub", "reason"} |->
        CASE f = "contributorName"   -> Some(<<"B">>)
          [] f = "contributorEmail"  -> Some(Str("email", 2))
          [] f = "contributorGithub" -> None
          [] f = "reason"            -> None
          [] f = "email"             -> Some(EmptyStr)
          [] f = "photosUrls"        -> None
          [] f \in {"createdBy", "contributors", "createdAt", "updatedAt"} -> None
          [] OTHER -> PlaceA[f]]

Variants(f, values) == {[BaseBody EXCEPT ![f] = v] : v \in values}

HoursVariants ==
    Variants("operatingHours",
             {Some(<<ClosedDay("monday")>>),
              Some(<<Entry("monday", Some(T900), Some(T2100), None)>>)})

\* bodies sent to the create route: names that generate the slug of a stored
\* record, a slug with an underscore, an empty slug;
\* a closed day; fields the schema refuses
CreateBodies ==
    {BaseBody}
    \cup Variants("name", {Some(<<"A">>), Some(<<"a", "_", "b">>), Some(<<"!">>),
                           Some(<<>>)})
    \cup HoursVariants
    \cup Variants("description", {Some(Rep("a", DescriptionMin - 1))})
    \cup Variants("contributorName", {None})

\* bodies sent to the update route: another record's id, another slug, a slug
\* without a file, a closed day, contributor fields
UpdateBodies ==
    {BaseBody}
    \cup Variants("id", {Some(Str("uuid", 2)), Some(Str("text", 1))})
    \cup Variants("slug", {Some(<<"b">>), Some(<<"c">>), Some(<<>>)})
    \cup HoursVariants
    \cup Variants("contributorName", {None, Some(<<>>)})
    \cup Variants("contributorEmail", {Some(EmptyStr), Some(Str("text", 1))})

DeleteBodies ==
    {BaseBody} \cup Variants("slug", {Some(<<"c">>), Some(<<>>)})

\* the requests of the specification Spec for a route with the given bodies:
\* every body with a cookie and header that agree; a body that is no JSON; a
\* GitHub call that fails; a request without the secret cookie
SubmitRequests(bodies) ==
    {Req(Some(GoodToken), Some(GoodToken), None, None, "json", b, "ok") : b \in bodies}
    \cup {Req(Some(GoodToken), Some(GoodToken), None, None, "malformed", BaseBody, "ok"),
          Req(Some(GoodToken), Some(GoodToken), None, None, "json", BaseBody, "fail"),
          Req(None, Some(GoodToken), None, None, "json", BaseBody, "ok")}

\* the requests of the specification SpecCsrf: every cookie / header pair,
\* with a body the route accepts and with one it refuses
CsrfRequests ==
    {Req(c.cookie, c.header, None, None, "json", b, "ok") :
        c \in CsrfInputs, b \in {BaseBody} \cup Variants("name", {Some(<<>>)})}

CreateRequests == SubmitRequests(CreateBodies)

UpdateRequests == SubmitRequests(UpdateBodies)

DeleteRequests == SubmitRequests(DeleteBodies)

TickMs == 1800000

MaxClock == 1800000

MaxSubmissions == 2

\* the handlers run while the model's budget of counted submissions lasts
Budget(req) == Has(requireCsrfToken(req)) \/ Len(accepted) < MaxSubmissions

Init ==
    /\ clock = 0
    /\ requests = [i \in {} |-> <<>>]
    /\ accepted = <<>>
    /\ places = InitialPlaces
    /\ proposal = None
    /\ response = NoResponse
    /\ nextUuid = 0
    /\ target = [kind |-> "none", files |-> <<>>]
    /\ results = <<>>
    /\ vpc = "start"
    /\ exitCode = -1
    /\ StatsIdle
    /\ OthersIdle

Next ==
    \/ \E req \in CreateRequests : Budget(req) /\ CreatePost(req) /\ UNCHANGED <<vvars, svars, ovars>>
    \/ \E req \in UpdateRequests : Budget(req) /\ UpdatePost(req) /\ UNCHANGED <<vvars, svars, ovars>>
    \/ \E req \in DeleteRequests : Budget(req) /\ DeletePost(req) /\ UNCHANGED <<vvars, svars, ovars>>
    \/ Merge /\ UNCHANGED <<vvars, svars, ovars>>
    \/ clock + TickMs <= MaxClock /\ Tick(TickMs) /\ UNCHANGED <<vvars, svars, ovars>>

Spec == Init /\ [][Next]_vars

NextCsrf ==
    \/ \E req \in CsrfRequests : Budget(req) /\ CreatePost(req) /\ UNCHANGED <<vvars, svars, ovars>>
    \/ \E req \in CsrfRequests : Budget(req) /\ UpdatePost(req) /\ UNCHANGED <<vvars, svars, ovars>>
    \/ \E req \in CsrfRequests : Budget(req) /\ DeletePost(req) /\ UNCHANGED <<vvars, svars, ovars>>
    \/ Merge /\ UNCHANGED <<vvars, svars, ovars>>

SpecCsrf == Init /\ [][NextCsrf]_vars

----------------------------------------------------------------------------
(* The rate limiter under load: several identities, more requests than the *)
(* quota, and time passing beyond the window                               *)

\* a body every route refuses at body validation, after the rate limiter ran
RefusedBody == [BaseBody EXCEPT !.name = Some(<<>>), !.slug = Some(<<>>)]

\* x-forwarded-for (a list) and x-real-ip of two identities: "ip1" named by
\* the first entry of x-forwarded-for, "ip2" by x-real-ip alone
LimitIps ==
    {[forwarded |-> Some(<<"ip1", "ip2">>), realIp |-> Some("ip2")],
     [forwarded |-> None, realIp |-> Some("ip2")]}

LimitRequests ==
    {Req(Some(GoodToken), Some(GoodToken), ip.forwarded, ip.realIp, "json",
         RefusedBody, "ok") : ip \in LimitIps}

\* the clock moves in half windows
HalfWindow == WindowMs \div 2

MaxTicks == 2

MaxChecks == 6

\* the handlers run while the budget of accepted checks lasts; a request
\* the limiter refuses takes none of it
LimitBudget(req) ==
    Len(accepted) < MaxChecks \/ ~CheckAllows(requests, getClientIP(req), clock)

NextLimit ==
    \/ \E req \in LimitRequests : LimitBudget(req) /\ CreatePost(req) /\ UNCHANGED <<vvars, svars, ovars>>
    \/ \E req \in LimitRequests : LimitBudget(req) /\ UpdatePost(req) /\ UNCHANGED <<vvars, svars, ovars>>
    \/ \E req \in LimitRequests : LimitBudget(req) /\ DeletePost(req) /\ UNCHANGED <<vvars, svars, ovars>>
    \/ clock + HalfWindow <= MaxTicks * HalfWindow /\ Tick(HalfWindow) /\ UNCHANGED <<vvars, svars, ovars>>

SpecLimit == Init /\ [][NextLimit]_vars

----------------------------------------------------------------------------
(* The order of the handlers' checks: one identity sends, within one       *)
(* window, requests that fail at each check in turn, past the quota, while *)
(* pull requests get merged                                                *)

\* a body that body validation refuses and whose slug names no record file
OrderUpdateBodies == {BaseBody} \cup Variants("slug", {Some(<<"c">>), Some(<<>>)})

OrderCreateRequests == SubmitRequests({BaseBody} \cup Variants("name", {Some(<<>>)}))

OrderUpdateRequests == SubmitRequests(OrderUpdateBodies)

OrderDeleteRequests == SubmitRequests(DeleteBodies)

NextOrder ==
    \/ \E req \in OrderCreateRequests : LimitBudget(req) /\ CreatePost(req) /\ UNCHANGED <<vvars, svars, ovars>>
    \/ \E req \in OrderUpdateRequests : LimitBudget(req) /\ UpdatePost(req) /\ UNCHANGED <<vvars, svars, ovars>>
    \/ \E req \in OrderDeleteRequests : LimitBudget(req) /\ DeletePost(req) /\ UNCHANGED <<vvars, svars, ovars>>
    \/ Merge /\ UNCHANGED <<vvars, svars, ovars>>

SpecOrder == Init /\ [][NextOrder]_vars

----------------------------------------------------------------------------
(* The rate limiter with a full map: CleanupSize identifiers are stored    *)
(* when further ones arrive, so that check() runs cleanup()                *)

\* the address of the n-th client
Host(n) == <<"host", n>>

\* the map half a window after CleanupSize clients made requests: the first
\* client used its five slots then, the second came back just now, and of
\* the others every second one arrived only now
FullMap ==
    [h \in {Host(n) : n \in 1..CleanupSize} |->
        IF h[2] = 1 THEN <<0, 0, 0, 0, 0>>
        ELSE IF h[2] = 2 THEN <<0, HalfWindow>>
        ELSE IF h[2] % 2 = 0 THEN <<0>>
        ELSE <<HalfWindow>>]

\* the clients that call check(): two that are stored, two that are new
Callers == {Host(1), Host(2), Host(CleanupSize + 1), Host(CleanupSize + 2)}

MaxCleanupChecks == 2

InitCleanup ==
    /\ clock = HalfWindow
    /\ requests = FullMap
    /\ accepted = <<>>
    /\ places = [s \in {} |-> None]
    /\ proposal = None
    /\ response = NoResponse
    /\ nextUuid = 0
    /\ target = [kind |-> "none", files |-> <<>>]
    /\ results = <<>>
    /\ vpc = "start"
    /\ exitCode = -1
    /\ StatsIdle
    /\ OthersIdle

NextCleanup ==
    \/ \E a \in Callers :
          /\ Len(accepted) < MaxCleanupChecks \/ ~CheckAllows(requests, a, clock)
          /\ Check(a)
          /\ UNCHANGED <<vvars, svars, ovars>>
    \/ clock + HalfWindow <= (MaxTicks + 1) * HalfWindow /\ Tick(HalfWindow) /\ UNCHANGED <<vvars, svars, ovars>>

SpecCleanup == InitCleanup /\ [][NextCleanup]_vars

----------------------------------------------------------------------------
(* The validator run on one record file, and on a directory *)

\* the submission pipeline before any request
PipelineIdle ==
    /\ clock = 0
    /\ requests = [i \in {} |-> <<>>]
    /\ accepted = <<>>
    /\ places = [s \in {} |-> None]
    /\ proposal = None
    /\ response = NoResponse
    /\ nextUuid = 0

InitValidate ==
    /\ \E d1 \in OneOff(BasePlace) : \E d \in OneOff(d1) :
          target = [kind |-> "file", files |-> <<File(<<"a">>, ".json", "json", d)>>]
    /\ results = <<>>
    /\ vpc = "start"
    /\ exitCode = -1
    /\ PipelineIdle
    /\ StatsIdle
    /\ OthersIdle

NextValidate == Main /\ UNCHANGED <<svars, ovars>>

SpecValidate == InitValidate /\ [][NextValidate]_vars

\* record files of a places directory: three valid records, one sharing the
\* id and one the slug of the first, one without cuisineTypes, one that is
\* no JSON, one that cannot be read, and a file that is no .json file
Record(id, slug) ==
    [BasePlace EXCEPT !.id = Some(Str("uuid", id)), !.slug = Some(slug)]

ValidFiles ==
    {File(<<"a">>, ".json", "json", Record(1, <<"a">>)),
     File(<<"b">>, ".json", "json", Record(2, <<"b">>)),
     File(<<"c">>, ".json", "json", Record(3, <<"c">>))}

SameIdFile == File(<<"d">>, ".json", "json", Record(1, <<"d">>))

SameSlugFile == File(<<"e">>, ".json", "json", Record(5, <<"a">>))

NoCuisineFile ==
    File(<<"f">>, ".json", "json", [Record(6, <<"f">>) EXCEPT !.cuisineTypes = None])

MalformedFile == File(<<"g">>, ".json", "malformed", BasePlace)

UnreadableFile == File(<<"h">>, ".json", "unreadable", BasePlace)

ReadmeFile == File(<<"r">>, ".md", "malformed", BasePlace)

BatchFiles ==
    ValidFiles \cup {SameIdFile, SameSlugFile, NoCuisineFile, MalformedFile,
                     UnreadableFile, ReadmeFile}

MaxFiles == 4

\* the listings fs.readdirSync can return: no file name twice, any order
Directories ==
    {fs \in UNION {[1..n -> BatchFiles] : n \in 0..MaxFiles} :
        \A i, j \in 1..Len(fs) : fs[i] = fs[j] => i = j}

InitBatch ==
    /\ target \in {[kind |-> "dir", files |-> fs] : fs \in Directories}
                  \cup {[kind |-> "file", files |-> <<f>>] : f \in BatchFiles}
                  \cup {[kind |-> "none", files |-> <<>>],
                        [kind |-> "missing", files |-> <<>>]}
    /\ results = <<>>
    /\ vpc = "start"
    /\ exitCode = -1
    /\ PipelineIdle
    /\ StatsIdle
    /\ OthersIdle

NextBatch == Main /\ UNCHANGED <<svars, ovars>>

SpecBatch == InitBatch /\ [][NextBatch]_vars

----------------------------------------------------------------------------
(* Specification of the stats scripts: a data directory of a few files,    *)
(* read any number of times, in any order of enumeration                   *)

StatsPlace(priceRange, paymentMethods, cuisineTypes, amenities, tags) ==
    [priceRange |-> priceRange, paymentMethods |-> paymentMethods,
     cuisineTypes |-> cuisineTypes, amenities |-> amenities, tags |-> tags]

\* category values, each the first letters of a word: filipino, italian,
\* korean; cash, gcash; wifi, Wifi; takeout
Fil == <<"f">>

Ita == <<"i">>

Kor == <<"k">>

Cash == <<"c">>

GCash == <<"g", "c">>

Wifi == <<"w">>

WifiCapital == <<"W">>

Takeout == <<"t", "a">>

\* the files the data directory may hold, ordered by the id of their record
StatsPool ==
    << File(<<"a">>, ".json", "json",
            StatsPlace(Some(Rep("$", 2)), Some(<<Cash>>), Some(<<Fil, Ita>>),
                       Some(<<Wifi>>), Some(<<Takeout, Takeout>>))),
       File(<<"b">>, ".json", "json",
            StatsPlace(Some(Rep("$", 1)), Some(<<GCash, Cash>>), Some(<<Ita, Kor>>),
                       Some(<<Wifi, WifiCapital>>), Some(<<Takeout, <<"t">>, <<>>>>))),
       \* a record without any of the five properties
       File(<<"c">>, ".json", "json", StatsPlace(None, None, None, None, None)),
       \* a record whose five properties are all empty
       File(<<"d">>, ".json", "json",
            StatsPlace(Some(<<>>), Some(<<>>), Some(<<>>), Some(<<>>), Some(<<>>))),
       File(<<"g">>, ".json", "malformed", StatsPlace(None, None, None, None, None)),
       File(<<"r">>, ".md", "malformed", StatsPlace(None, None, None, None, None)) >>

MaxStatsFiles == 2

\* the records of the directory's files as places.json holds them, in the
\* order of their ids
MergedPlaces(files) ==
    LET kept == SelectSeq(StatsPool, LAMBDA f : f \in files /\ f.kind = "json")
    IN  [i \in 1..Len(kept) |-> kept[i].data]

StatsSources ==
    {[exists |-> FALSE, files |-> {}, placesJson |-> None]}
    \cup {[exists |-> TRUE, files |-> files,
           placesJson |-> IF MergedPlaces(files) = <<>> THEN None
                          ELSE Some(MergedPlaces(files))] :
             files \in {fs \in SUBSET {StatsPool[i] : i \in 1..Len(StatsPool)} :
                           Cardinality(fs) <= MaxStatsFiles}}

\* a stats.json published by an earlier run, over another state of the directory
PublishedStats == Stats(CollectPlace(EmptySets, StatsPool[1].data), 1, 0)

InitStats ==
    /\ statsSource \in StatsSources
    /\ statsJson \in {None, Some(PublishedStats)}
    /\ statsRun = None
    /\ statsPrev = None
    /\ target = [kind |-> "none", files |-> <<>>]
    /\ results = <<>>
    /\ vpc = "start"
    /\ exitCode = -1
    /\ PipelineIdle
    /\ OthersIdle

NextStats ==
    \/ \E listing \in Enumerations(statsSource.files) :
          BuildStats(listing) /\ UNCHANGED <<vvars, pvars, ovars>>
    \/ GenerateStats /\ UNCHANGED <<vvars, pvars, ovars>>
    \/ clock + TickMs <= MaxClock /\ Tick(TickMs) /\ UNCHANGED <<vvars, svars, ovars>>

SpecStats == InitStats /\ [][NextStats]_vars

----------------------------------------------------------------------------
(* Specification of the merge script: a data directory of a few files,     *)
(* merged any number of times                                              *)

\* a record of the older data files, whose ids are decimal numbers
NumberedPlace(id) ==
    [id |-> id, name |-> <<"R", "o">>, slug |-> <<"a">>,
     phone |-> Str("text", 1),
     operatingHours |-> <<OpenDay("monday")>>,
     priceRange |-> Rep("$", 2),
     cuisineTypes |-> <<Fil>>]

MergeFile(name, kind, data) == [name |-> name, kind |-> kind, data |-> data]

\* places-1.json, places-10.json, places-2.json, places-3.json and places.json
MergePool ==
    {MergeFile(PlacesPrefix \o <<"1">> \o DotJson, "array",
               <<NumberedPlace(<<"3">>), NumberedPlace(<<"1">>)>>),
     MergeFile(PlacesPrefix \o <<"1", "0">> \o DotJson, "array",
               <<NumberedPlace(<<"2">>)>>),
     MergeFile(PlacesPrefix \o <<"2">> \o DotJson, "object",
               <<NumberedPlace(<<"1", "0">>)>>),
     MergeFile(PlacesPrefix \o <<"3">> \o DotJson, "malformed", <<>>),
     MergeFile(<<"p", "l", "a", "c", "e", "s">> \o DotJson, "array",
               <<NumberedPlace(<<"9">>)>>)}

InitMerge ==
    /\ GithubIdle
    /\ ClientIdle
    /\ mergeSource \in SUBSET MergePool
    /\ mergedJson \in {None, Some(<<NumberedPlace(<<"9">>)>>)}
    /\ mergeRun = None
    /\ mergePrev = None
    /\ target = [kind |-> "none", files |-> <<>>]
    /\ results = <<>>
    /\ vpc = "start"
    /\ exitCode = -1
    /\ PipelineIdle
    /\ StatsIdle
    /\ WorkflowIdle

NextMerge ==
    \E allFiles \in Enumerations({f.name : f \in mergeSource}) :
        MergePlaces(allFiles) /\ UNCHANGED <<vvars, pvars, svars, workflow, gvars, cvars>>

SpecMerge == InitMerge /\ [][NextMerge]_vars

----------------------------------------------------------------------------
(* Specification of the build workflow: one push of one or two changed     *)
(* record files                                                            *)

\* the record files a push may change
ChangedFiles == {f \in BatchFiles : EndsWithJson(f)}

Pushes ==
    {<<f>> : f \in ChangedFiles}
    \cup {pair \in ChangedFiles \X ChangedFiles : pair[1] # pair[2]}

InitWorkflow ==
    /\ WorkflowIdle
    /\ GithubIdle
    /\ ClientIdle
    /\ MergeIdle
    /\ StatsIdle
    /\ PipelineIdle
    /\ target = [kind |-> "none", files |-> <<>>]
    /\ results = <<>>
    /\ vpc = "start"
    /\ exitCode = -1

NextWorkflow ==
    /\ UNCHANGED <<vvars, pvars, svars, mvars, gvars, cvars>>
    /\ \/ \E changed \in Pushes, direct \in BOOLEAN : Push(changed, direct)
       \/ ValidateStep
       \/ \E failed \in BOOLEAN : BuildIndexStep(failed)
       \/ \E failed \in BOOLEAN : BuildStatsStep(failed)
       \/ \E failed \in BOOLEAN : CommitStep(failed)
       \/ DeployStep

SpecWorkflow == InitWorkflow /\ [][NextWorkflow]_vars

----------------------------------------------------------------------------
(* Removal proposals: deletePlacePR for record files that exist and one    *)
(* that does not, with GitHub failing any one call                         *)

MaxNow == 1

\* the slugs removal is asked for: a.json exists on main, c.json does not
DeleteSlugs == {<<"a">>, <<"c">>}

Faults == {"none", "getRef", "createRef", "getContent", "deleteFile", "pulls.create"}

InitDelete ==
    /\ repo = Repo({<<"a">>, <<"b">>}, <<>>, {}, 0)
    /\ deleteResult = None
    /\ ClientIdle
    /\ MergeIdle
    /\ WorkflowIdle
    /\ StatsIdle
    /\ PipelineIdle
    /\ target = [kind |-> "none", files |-> <<>>]
    /\ results = <<>>
    /\ vpc = "start"
    /\ exitCode = -1

NextDelete ==
    /\ UNCHANGED <<vvars, pvars, svars, mvars, workflow, cvars>>
    /\ \/ \E slug \in DeleteSlugs, pat \in BOOLEAN, fault \in Faults :
             DeletePlacePR(slug, pat, fault)
       \/ repo.now < MaxNow /\ Millisecond

SpecDelete == InitDelete /\ [][NextDelete]_vars

----------------------------------------------------------------------------
(* One browser: page requests, fetchCsrfToken and csrfFetch in any order,  *)
(* answered in any order                                                   *)

MaxRequests == 3

\* a string of SecretLength hexadecimal digits
Secret(c) == Rep(c, SecretLength)

\* what generateCsrfSecret() may return
FreshSecrets == {Secret("0"), Secret("f")}

InitClient ==
    /\ ClientIdle
    /\ GithubIdle
    /\ MergeIdle
    /\ WorkflowIdle
    /\ StatsIdle
    /\ PipelineIdle
    /\ target = [kind |-> "none", files |-> <<>>]
    /\ results = <<>>
    /\ vpc = "start"
    /\ exitCode = -1

NextClient ==
    /\ UNCHANGED <<vvars, pvars, svars, mvars, workflow, gvars>>
    /\ \/ browser.sent < MaxRequests /\ Navigate
       \/ browser.sent < MaxRequests /\ FetchCsrfToken
       \/ browser.sent < MaxRequests /\ CsrfFetch
       \/ ResetCsrfToken
       \/ \E m \in network, fresh \in FreshSecrets : Deliver(m, fresh)

SpecClient == InitClient /\ [][NextClient]_vars

----------------------------------------------------------------------------
(* The rules of the place schema as the specification states them         *)
(* (sections 3 and 4.1), field by field.  A field is required unless       *)
(* section 3 calls it optional; the array photosUrls is read as required   *)
(* and its elements as URLs, which is what every schema of the source      *)
(* states for it.                                                          *)

HoursEntryRule(e) ==
    \/ e.closed = Some(TRUE)
    \/ /\ Has(e.open) /\ IsHHMM(Val(e.open))
       /\ Has(e.close) /\ IsHHMM(Val(e.close))

FieldRule(f, o) ==
    CASE f = "id" -> Has(o) /\ IsUuid(Val(o))
      [] f = "slug" -> Has(o) /\ Len(Val(o)) >= 1 /\ IsKebab(Val(o))
      [] f \in {"name", "address"} -> Has(o) /\ Len(Val(o)) >= 1
      [] f = "description" -> Has(o) /\ Len(Val(o)) >= 10
      [] f = "email" -> ~Has(o) \/ IsEmptyStr(Val(o)) \/ IsEmail(Val(o))
      [] f \in {"website", "logoUrl", "coverImageUrl"} ->
            ~Has(o) \/ IsEmptyStr(Val(o)) \/ IsUrl(Val(o))
      [] f = "photosUrls" -> Has(o) /\ \A i \in 1..Len(Val(o)) : IsUrl(Val(o)[i])
      [] f = "operatingHours" ->
            Has(o) /\ \A i \in 1..Len(Val(o)) : HoursEntryRule(Val(o)[i])
      [] f = "priceRange" -> Has(o) /\ Val(o) \in PriceRanges
      [] f = "cuisineTypes" -> Has(o) /\ Len(Val(o)) >= 1
      [] f \in {"paymentMethods", "tags", "amenities", "specialties"} -> Has(o)
      [] f = "latitude" -> ~Has(o) \/ (Val(o) >= -90 /\ Val(o) <= 90)
      [] f = "longitude" -> ~Has(o) \/ (Val(o) >= -180 /\ Val(o) <= 180)
      [] f \in {"createdAt", "updatedAt"} -> Has(o) /\ IsDatetime(Val(o))
      [] f = "rating" -> ~Has(o) \/ (Val(o) >= 0 /\ Val(o) <= 5)
      [] f = "reviewCount" -> ~Has(o) \/ Val(o) >= 0
      [] OTHER -> TRUE

OffendingFields(d) == {f \in PlaceFields : ~FieldRule(f, d[f])}

SatisfiesRules(d) == OffendingFields(d) = {}

\* the single record file main was given, and its result
OneFileDone == vpc = "done" /\ target.kind = "file" /\ Len(results) = 1

NamesOffendingField(r, d) ==
    \E i \in 1..Len(r.errors) :
        /\ r.errors[i].path # <<>>
        /\ r.errors[i].path[1] \in OffendingFields(d)

\* C1: validatePlaceFile returns valid = true with no errors exactly when the
\* record meets every field rule of the place schema, and for a record that
\* breaks a rule it returns valid = false with an error whose path names an
\* offending field.
C1_ValidIffRules ==
    OneFileDone =>
        LET d == target.files[1].data
            r == results[1]
        IN  /\ (r.valid /\ r.errors = <<>>) <=> SatisfiesRules(d)
            /\ ~SatisfiesRules(d) => (~r.valid /\ NamesOffendingField(r, d))

----------------------------------------------------------------------------
(* Claims about the submission pipeline *)

\* the Place the last handler gave to createPlacePR / updatePlacePR
Handed == Val(response.handed)

HandedBy(route) == response.route = route /\ Has(response.handed)

\* C2: every Place the create and update routes pass to createPlacePR /
\* updatePlacePR satisfies placeSchema.
C2_HandedRecordIsValid ==
    Has(response.handed) => placeSchema(Handed) = <<>>

\* the request is one the claim calls CSRF-unprotected: no secret cookie, no
\* x-csrf-token header, or a header that differs from the cookie
Unprotected(req) ==
    \/ ~Has(req.cookie)
    \/ ~Has(req.header)
    \/ Val(req.cookie) # Val(req.header)

\* the handler answered 403 and went no further: no rate-limit slot, no uuid,
\* no pull request, no change of the collection
Answered403(route) ==
    /\ response'.route = route
    /\ response'.status = 403
    /\ ~Has(response'.handed)
    /\ UNCHANGED <<requests, accepted, places, proposal, nextUuid>>

\* C3: a POST to the create, update or delete route whose secret cookie is
\* missing, whose x-csrf-token header is missing or whose header differs from
\* the cookie is answered with 403 and reaches neither body validation nor
\* pull-request creation, wherever it comes in a sequence of requests.
C3_UnprotectedRejected ==
    [][\A req \in CsrfRequests :
          Unprotected(req) =>
            /\ CreatePost(req) => Answered403("create")
            /\ UpdatePost(req) => Answered403("update")
            /\ DeletePost(req) => Answered403("delete")]_vars

\* a request was refused with 403 after an earlier one had passed the check
C3_Witness ==
    /\ response.status = 403
    /\ response.route = "delete"
    /\ accepted # <<>>
    /\ Has(proposal)

\* no two record files carry the same id
UniqueIds ==
    \A s1, s2 \in DOMAIN places :
        places[s1].id = places[s2].id => s1 = s2

\* C5: the record the update route proposes for slug s carries the id of the
\* record stored under s, whatever id the body supplies, and no two records of
\* the collection come to share an id.
C5_UpdateKeepsId ==
    /\ HandedBy("update") => Handed.id = Val(response.existing).id
    /\ UniqueIds

IsPrefix(a, b) == Len(a) <= Len(b) /\ \A i \in 1..Len(a) : a[i] = b[i]

\* C6: the record proposed by the create route carries exactly one contributor
\* entry, with action 'created'; the record proposed by the update route
\* carries the existing contributors as a prefix, then one entry 'updated'.
C6_ContributorsAppendOnly ==
    /\ HandedBy("create") =>
          /\ Has(Handed.contributors)
          /\ Len(Val(Handed.contributors)) = 1
          /\ Val(Handed.contributors)[1].action = "created"
    /\ HandedBy("update") =>
          LET old == ExistingContributors(Val(response.existing))
              new == Val(Handed.contributors)
          IN  /\ Has(Handed.contributors)
              /\ Len(new) = Len(old) + 1
              /\ IsPrefix(old, new)
              /\ new[Len(new)].action = "updated"

\* updatedAt >= createdAt, on the instants the two strings denote
Ordered(place) == Val(place.updatedAt).n >= Val(place.createdAt).n

\* every record of the collection, proposed or handed to a pull-request call
AllOrdered ==
    /\ \A s \in DOMAIN places : Ordered(places[s])
    /\ (Has(proposal) /\ Has(Val(proposal).content)) => Ordered(Val(Val(proposal).content))
    /\ Has(response.handed) => Ordered(Handed)

\* the instant of the request the last handed record was built for: the
\* handler recorded it in the rate limiter before building the record
RequestTime == accepted[Len(accepted)][2]

C8_CreateNeverOverwrites ==
    (Has(proposal) /\ Val(proposal).kind = "create") =>
        Val(proposal).file \notin DOMAIN places

----------------------------------------------------------------------------
(* Claims about the rate limiter *)

Identities == {getClientIP(req) : req \in LimitRequests}

\* the instants the clock of SpecLimit can show
Instants == {k * HalfWindow : k \in 0..MaxTicks}

\* the check() calls of an identifier that returned true with a timestamp in
\* the hour ending at t
AcceptedIn(id, t) ==
    Cardinality({i \in 1..Len(accepted) :
                    /\ accepted[i][1] = id
                    /\ accepted[i][2] <= t
                    /\ t - accepted[i][2] < 3600000})

QuotaHolds ==
    \A id \in Identities :
        /\ \A t \in Instants : AcceptedIn(id, t) <= 5
        /\ Len(Stored(requests, id)) <= 5

\* the handler answered 429 and recorded nothing
Answered429(route) ==
    /\ response'.route = route
    /\ response'.status = 429
    /\ UNCHANGED <<requests, accepted, places, proposal, nextUuid>>

\* C4: for every identifier and every instant t at most 5 check() calls with
\* timestamps in the hour ending at t return true, the stored timestamp list
\* of an identifier never holds more than 5 entries, and a request of an
\* identifier that already has 5 accepted ones inside the window is refused
\* with 429.
C4_RateLimited ==
    /\ []QuotaHolds
    /\ [][\A req \in LimitRequests :
            AcceptedIn(getClientIP(req), clock) >= 5 =>
              /\ CreatePost(req) => Answered429("create")
              /\ UpdatePost(req) => Answered429("update")
              /\ DeletePost(req) => Answered429("delete")]_vars

\* one identity was just refused its 6th request of the window while another
\* one still has quota left
C4_Witness ==
    /\ response.status = 429
    /\ AcceptedIn(response.identifier, clock) = 5
    /\ \E id \in Identities \ {response.identifier} :
          AcceptedIn(id, clock) \in 1..4

----------------------------------------------------------------------------
(* Claims about batch validation *)

\* main has ended on a directory, with a report or with an uncaught error
BatchEnded == target.kind = "dir" /\ vpc \in {"done", "threw"}

\* the .json files of the directory, as positions of the listing
JsonAt == {i \in 1..Len(target.files) : target.files[i].ext = ".json"}

\* the result reported for the file at position i of the listing, if any
ResultsOf(i) ==
    {k \in 1..Len(results) : results[k].filePath = target.files[i].base}

ReportedInvalid(i) == \E k \in ResultsOf(i) : ~results[k].valid

\* two parsed record files share an id or share a slug
Duplicates(i, j) ==
    /\ i # j
    /\ target.files[i].kind = "json"
    /\ target.files[j].kind = "json"
    /\ \/ target.files[i].data.id = target.files[j].data.id
       \/ target.files[i].data.slug = target.files[j].data.slug

\* C9: when two record files of the validated directory share an id or share
\* a slug, batch validation reports one of the two invalid and the exit
\* status is non-zero.
C9_DuplicatesReported ==
    BatchEnded =>
        \A i, j \in JsonAt :
            Duplicates(i, j) =>
                /\ ReportedInvalid(i) \/ ReportedInvalid(j)
                /\ exitCode # 0

\* a file on its own: readable, well-formed JSON, an object meeting the schema
ValidAlone(f) == f.kind = "json" /\ placeSchema(f.data) = <<>>

NumberValid == Cardinality({k \in 1..Len(results) : results[k].valid})

NumberInvalid == Cardinality({k \in 1..Len(results) : ~results[k].valid})

\* three valid files and one file without cuisineTypes, in any order
ScenarioB ==
    /\ Len(target.files) = 4
    /\ \E i \in 1..4 :
          /\ target.files[i] = NoCuisineFile
          /\ \A j \in (1..4) \ {i} : target.files[j] \in ValidFiles

\* C10: validateAllPlaces returns exactly one result per .json file of the
\* directory; a failure of one file (invalid fields, malformed JSON, or an
\* unreadable file) never prevents the other files from being validated; the
\* counts satisfy total = valid + invalid, each invalid file is listed with
\* its errors; 3 valid files and 1 file missing cuisineTypes give valid 3,
\* invalid 1 and an error at path cuisineTypes.
C10_EachFileValidated ==
    BatchEnded =>
        /\ Len(results) = Cardinality(JsonAt)
        /\ \A i \in JsonAt :
              /\ Cardinality(ResultsOf(i)) = 1
              /\ \A k \in ResultsOf(i) :
                    /\ results[k].valid <=> ValidAlone(target.files[i])
                    /\ ~results[k].valid => results[k].errors # <<>>
        /\ Len(results) = NumberValid + NumberInvalid
        /\ ScenarioB =>
              /\ NumberValid = 3
              /\ NumberInvalid = 1
              /\ \A k \in 1..Len(results) :
                    ~results[k].valid =>
                        \E e \in 1..Len(results[k].errors) :
                            results[k].errors[e].path = <<"cuisineTypes">>

----------------------------------------------------------------------------
(* Claims about the validator's entry point *)

\* main has ended, whatever it was given
MainEnded == vpc \in {"done", "threw", "usage"}

\* the files main was asked to validate: the one file, or the .json files of
\* the directory
AskedFiles ==
    IF target.kind = "file" THEN {target.files[1]}
    ELSE {target.files[i] : i \in JsonAt}

\* C11: main ends with status zero exactly when it was given a file or a
\* directory and every file it had to validate is valid; it ends with a
\* non-zero status when a file is invalid, when the argument is missing and
\* when the path does not exist.
C11_ExitStatus ==
    MainEnded =>
        /\ exitCode = 0 <=>
              /\ target.kind \in {"file", "dir"}
              /\ \A f \in AskedFiles : ValidAlone(f)
        /\ (\E f \in AskedFiles : ~ValidAlone(f)) => exitCode # 0
        /\ target.kind \in {"none", "missing"} => exitCode # 0

\* a directory of valid files only ended with 0
C11_Witness ==
    /\ vpc = "done"
    /\ target.kind = "dir"
    /\ Len(target.files) >= 2
    /\ \A i \in 1..Len(target.files) : target.files[i] \in ValidFiles
    /\ exitCode = 0

----------------------------------------------------------------------------
(* Claims about the validation of one record *)

\* the record main was given and the result of validating it
Candidate == target.files[1].data

Outcome == results[1]

\* the result has an error whose path starts at field f
ErrorAt(f) ==
    \E i \in 1..Len(Outcome.errors) :
        /\ Outcome.errors[i].path # <<>>
        /\ Outcome.errors[i].path[1] = f

\* C12: for a record that breaks rules on k distinct fields, the error list
\* of the one validation pass has an error for each of the k fields.
C12_EveryViolationReported ==
    OneFileDone => \A f \in OffendingFields(Candidate) : ErrorAt(f)

\* a record breaking rules on two fields, both reported
C12_Witness ==
    /\ OneFileDone
    /\ Cardinality(OffendingFields(Candidate)) = 2
    /\ \A f \in OffendingFields(Candidate) : ErrorAt(f)

----------------------------------------------------------------------------
(* Claims about files that are no well-formed JSON *)

\* the listing without the file at position i
Without(fs, i) == SubSeq(fs, 1, i - 1) \o SubSeq(fs, i + 1, Len(fs))

\* the results without those of the file named base
RECURSIVE ResultsExcept(_, _)
ResultsExcept(rs, base) ==
    IF rs = <<>> THEN <<>>
    ELSE (IF Head(rs).filePath = base THEN <<>> ELSE <<Head(rs)>>)
         \o ResultsExcept(Tail(rs), base)

\* the .json files of the listing whose content is no well-formed JSON
MalformedAt == {i \in JsonAt : target.files[i].kind = "malformed"}

\* C13: a file whose content is no well-formed JSON yields valid = false with
\* exactly one error, at the empty path, with message 'JSON parse error ...',
\* and no field error; the other files of the batch are validated as they
\* are without that file.
C13_ParseErrorIsOneRootError ==
    BatchEnded =>
        \A i \in MalformedAt :
            LET others == Without(target.files, i)
                r == validatePlaceFile(target.files[i])
            IN  /\ ~r.threw
                /\ ~r.valid
                /\ r.errors = <<Issue(<<>>, "JSON parse error")>>
                /\ vpc = "threw" <=> Throws(validateAllPlaces(others))
                /\ vpc = "done" =>
                      /\ \A k \in ResultsOf(i) :
                            /\ ~results[k].valid
                            /\ Len(results[k].errors) = 1
                            /\ results[k].errors[1].path = <<>>
                            /\ results[k].errors[1].message = "JSON parse error"
                      /\ Cardinality(ResultsOf(i)) = 1
                      /\ ResultsExcept(results, target.files[i].base)
                            = validateAllPlaces(others)

\* a batch with a malformed file, a valid file after it and an invalid one
C13_Witness ==
    /\ vpc = "done"
    /\ target.kind = "dir"
    /\ Len(target.files) = 3
    /\ target.files[1] = MalformedFile
    /\ target.files[2] \in ValidFiles
    /\ target.files[3] = NoCuisineFile
    /\ results[2].valid
    /\ ~results[3].valid

----------------------------------------------------------------------------
(* Claims about operating hours *)

\* the day entries of the record main was given
HoursGiven == Has(Candidate.operatingHours)

Days == Val(Candidate.operatingHours)

\* {closed: true} and neither open nor close
ClosedOnly(e) == e.closed = Some(TRUE) /\ ~Has(e.open) /\ ~Has(e.close)

\* an error whose path is operatingHours.<day>.<key>
HoursErrorAt(day, key) ==
    \E i \in 1..Len(Outcome.errors) :
        Outcome.errors[i].path = <<"operatingHours", day, key>>

\* C14: a record that is otherwise valid and has a day entry {closed: true}
\* with no open and no close is reported valid, while a day entry without
\* closed = true that lacks open or close is reported as an error.
C14_ClosedDayIsValid ==
    (OneFileDone /\ HoursGiven) =>
        /\ (SatisfiesRules(Candidate) /\ \E i \in 1..Len(Days) : ClosedOnly(Days[i]))
              => Outcome.valid
        /\ \A i \in 1..Len(Days) :
              (Days[i].closed # Some(TRUE) /\ ~(Has(Days[i].open) /\ Has(Days[i].close)))
                  => ~Outcome.valid

\* a time of the 24-hour clock written HH:MM: 00:00 .. 23:59
Is24Hour(s) ==
    /\ Len(s) = 5
    /\ s[3] = ":"
    /\ \A i \in {1, 2, 4, 5} : s[i] \in DigitChars
    /\ 10 * DigitVal(s[1]) + DigitVal(s[2]) <= 23
    /\ 10 * DigitVal(s[4]) + DigitVal(s[5]) <= 59

\* C15: an open or close value that is no 24-hour HH:MM time (hour above 23
\* or minute above 59, as 25:00 and 12:60) is rejected with an error at
\* operatingHours.<day>.open resp. operatingHours.<day>.close.
C15_TimesAre24Hour ==
    (OneFileDone /\ HoursGiven) =>
        \A i \in 1..Len(Days) :
            /\ (Has(Days[i].open) /\ ~Is24Hour(Val(Days[i].open)))
                  => HoursErrorAt(Days[i].day, "open")
            /\ (Has(Days[i].close) /\ ~Is24Hour(Val(Days[i].close)))
                  => HoursErrorAt(Days[i].day, "close")

----------------------------------------------------------------------------
(* Claims about the format of single fields *)

\* an error whose path is exactly path
ErrorPath(path) ==
    \E i \in 1..Len(Outcome.errors) : Outcome.errors[i].path = path

\* the fields holding one e-mail address or one URL
FormatFields == {"email", "website", "logoUrl", "coverImageUrl"}

\* the value is syntactically what field f holds
WellFormed(f, v) == IF f = "email" THEN IsEmail(v) ELSE IsUrl(v)

\* a given email, website, logoUrl or coverImageUrl raises no error at its
\* path exactly when it is the empty string or well-formed
FormatFieldsChecked ==
    \A f \in FormatFields :
        Has(Candidate[f]) =>
            (ErrorPath(<<f>>) <=>
                ~(IsEmptyStr(Val(Candidate[f])) \/ WellFormed(f, Val(Candidate[f]))))

Photos == Val(Candidate.photosUrls)

\* C16 as stated: email, website, logoUrl, coverImageUrl and every element of
\* photosUrls are accepted when empty or well-formed, and every other string
\* is rejected with an error at that field's path.
C16_EmptyOrWellFormed ==
    OneFileDone =>
        /\ FormatFieldsChecked
        /\ Has(Candidate.photosUrls) =>
              \A i \in 1..Len(Photos) :
                  ErrorPath(<<"photosUrls", IndexKey(i)>>)
                      <=> ~(IsEmptyStr(Photos[i]) \/ IsUrl(Photos[i]))

\* C16 amended: email, website, logoUrl and coverImageUrl are accepted when
\* empty or well-formed and rejected otherwise with an error at the field's
\* path; an element of photosUrls is accepted only when it is a well-formed
\* URL, the empty string being rejected, with an error at photosUrls.<index>.
C16_EmptyOrWellFormedButPhotos ==
    OneFileDone =>
        /\ FormatFieldsChecked
        /\ Has(Candidate.photosUrls) =>
              \A i \in 1..Len(Photos) :
                  ErrorPath(<<"photosUrls", IndexKey(i)>>) <=> ~IsUrl(Photos[i])

\* an empty e-mail address is let pass next to an empty photo URL, which is not
C16_Witness ==
    /\ OneFileDone
    /\ Candidate.email = Some(EmptyStr)
    /\ Candidate.photosUrls = Some(<<EmptyStr>>)
    /\ ~ErrorPath(<<"email">>)
    /\ ErrorPath(<<"photosUrls", "0">>)

\* s from position i on is the rest of a kebab-case word: segments of lower
\* case letters and digits, joined by single hyphens; inSegment tells whether
\* the character before position i belongs to a segment
RECURSIVE KebabRest(_, _, _)
KebabRest(s, i, inSegment) ==
    IF i > Len(s) THEN inSegment
    ELSE IF s[i] = "-" THEN inSegment /\ KebabRest(s, i + 1, FALSE)
    ELSE s[i] \in LowerChars \cup DigitChars /\ KebabRest(s, i + 1, TRUE)

KebabCase(s) == KebabRest(s, 1, FALSE)

\* C17: a slug that is empty or is not kebab-case (an uppercase letter, an
\* underscore, a leading, trailing or doubled hyphen) gets an error whose path
\* is slug, and a slug that is kebab-case gets no slug error.
C17_SlugFormat ==
    (OneFileDone /\ Has(Candidate.slug)) =>
        (ErrorPath(<<"slug">>) <=> ~KebabCase(Val(Candidate.slug)))

\* an uppercase slug, as 'Rodics-Diner', is reported
C17_Witness ==
    /\ OneFileDone
    /\ Candidate.slug = Some(<<"R", "-", "a">>)
    /\ ErrorPath(<<"slug">>)
    /\ ~Outcome.valid

\* C18: a description of exactly 10 characters is accepted and one of 9
\* characters is rejected; priceRange is accepted exactly for '$', '$$', '$$$'
\* and '$$$$', and rejected for '$$$$$' and for the empty string.
C18_Boundaries ==
    OneFileDone =>
        /\ Has(Candidate.description) =>
              /\ Len(Val(Candidate.description)) = 10 => ~ErrorPath(<<"description">>)
              /\ Len(Val(Candidate.description)) = 9 => ErrorPath(<<"description">>)
        /\ Has(Candidate.priceRange) =>
              (ErrorPath(<<"priceRange">>) <=>
                  Val(Candidate.priceRange) \notin
                      {<<"$">>, <<"$", "$">>, <<"$", "$", "$">>, <<"$", "$", "$", "$">>})
        /\ (/\ Has(Candidate.description)
            /\ Len(Val(Candidate.description)) = 10
            /\ Candidate.priceRange = Some(<<"$", "$", "$", "$">>)
            /\ SatisfiesRules(Candidate)
            /\ \A i \in 1..Len(Days) : ~ClosedOnly(Days[i]))
              => Outcome.valid

\* a description of 10 characters passes next to the price range '$$$$$',
\* which does not
C18_Witness ==
    /\ OneFileDone
    /\ Has(Candidate.description)
    /\ Len(Val(Candidate.description)) = 10
    /\ Candidate.priceRange = Some(<<"$", "$", "$", "$", "$">>)
    /\ ~ErrorPath(<<"description">>)
    /\ ErrorPath(<<"priceRange">>)

----------------------------------------------------------------------------
(* Claims about the stats scripts *)

\* the record files of the data directory
RecordFiles == {f \in statsSource.files : EndsWithJson(f)}

\* the records the last run had to aggregate: those of the record files for
\* build-stats.ts, those of places.json for generate-stats.js
Collection ==
    IF Val(statsRun).script = "build-stats"
    THEN {f.data : f \in RecordFiles}
    ELSE {Val(statsSource.placesJson)[i] :
             i \in 1..Len(Val(statsSource.placesJson))}

CollectionSize ==
    IF Val(statsRun).script = "build-stats"
    THEN Cardinality(RecordFiles)
    ELSE Len(Val(statsSource.placesJson))

\* the values the records of the collection carry in an array field; a record
\* without the field, or with an empty array, adds none
ArrayValues(field) ==
    UNION {{Val(place[field])[i] : i \in 1..Len(Val(place[field]))} :
              place \in {q \in Collection : Has(q[field])}}

\* the values the records carry in priceRange; a record without it, or with
\* the empty string, adds none
PriceValues ==
    {Val(place.priceRange) :
        place \in {q \in Collection : Has(q.priceRange) /\ Val(q.priceRange) # <<>>}}

\* a comes before b in the lexicographic order of the code units: they agree
\* up to a position where a ends and b goes on, or where a has the smaller unit
Precedes(a, b) ==
    \E k \in 1..Len(b) :
        /\ k <= Len(a) + 1
        /\ \A j \in 1..(k - 1) : a[j] = b[j]
        /\ \/ k = Len(a) + 1
           \/ CodeUnit(a[k]) < CodeUnit(b[k])

\* arr lists exactly the values of S, each once, in ascending order
SortedSetOf(arr, S) ==
    /\ {arr[i] : i \in 1..Len(arr)} = S
    /\ \A i \in 1..(Len(arr) - 1) : Precedes(arr[i], arr[i + 1])

\* the last run ended with status 0 and an output
RunSucceeded == Has(statsRun) /\ Val(statsRun).exit = 0

Written == Val(Val(statsRun).out)

\* every record file of the directory can be read and parsed
AllParse == \A f \in RecordFiles : f.kind = "json"

\* C19: each value array the stats script writes (priceRanges, paymentMethods,
\* cuisineTypes, amenities, tags) is the sorted, duplicate-free list of the
\* values of that field over all records, a record whose field is missing or
\* empty adding nothing and causing no failure; uniqueCuisines,
\* uniqueAmenities and uniqueTags are the lengths of their arrays and
\* totalPlaces is the number of record files.
C19_ValueArraysAndCounts ==
    /\ RunSucceeded =>
          /\ SortedSetOf(Written.priceRanges, PriceValues)
          /\ \A field \in {"paymentMethods", "cuisineTypes", "amenities", "tags"} :
                SortedSetOf(Written[field], ArrayValues(field))
          /\ Written.uniqueCuisines = Len(Written.cuisineTypes)
          /\ Written.uniqueAmenities = Len(Written.amenities)
          /\ Written.uniqueTags = Len(Written.tags)
          /\ Written.totalPlaces = CollectionSize
          /\ statsJson = Val(statsRun).out
    /\ (/\ Has(statsRun)
        /\ Val(statsRun).script = "build-stats"
        /\ statsSource.exists
        /\ RecordFiles # {}
        /\ AllParse) => Val(statsRun).exit = 0

\* scenario D: cuisine types [filipino, italian] and [italian, korean]
C19_Witness ==
    /\ RunSucceeded
    /\ Val(statsRun).script = "build-stats"
    /\ statsSource.files = {StatsPool[1], StatsPool[2]}
    /\ Written.cuisineTypes = <<Fil, Ita, Kor>>
    /\ Written.uniqueCuisines = 3
    /\ Written.amenities = <<WifiCapital, Wifi>>
    /\ Written.tags = <<<<>>, <<"t">>, Takeout>>
    /\ Written.totalPlaces = 2

\* the output of a run without the time it was generated at
Timeless(out) == [out EXCEPT !.generatedAt = toISOString(0)]

\* C20: two runs over the same records, in whatever order the record files
\* are enumerated, write the same value arrays and the same counts; only
\* generatedAt may differ.
C20_Deterministic ==
    (Has(statsRun) /\ Has(statsPrev)) =>
        /\ (Val(statsRun).exit = 0 /\ Val(statsPrev).exit = 0)
              => Timeless(Written) = Timeless(Val(Val(statsPrev).out))
        /\ Val(statsRun).script = Val(statsPrev).script
              => Val(statsRun).exit = Val(statsPrev).exit

\* two runs of build-stats.ts that met the files in different orders, at
\* different times
C20_Witness ==
    /\ Has(statsRun) /\ Has(statsPrev)
    /\ Val(statsRun).script = "build-stats"
    /\ Val(statsPrev).script = "build-stats"
    /\ Val(statsRun).exit = 0 /\ Val(statsPrev).exit = 0
    /\ Val(statsRun).listing # Val(statsPrev).listing
    /\ Written.generatedAt # Val(Val(statsPrev).out).generatedAt
    /\ Written.uniqueCuisines = 3
    /\ Written.cuisineTypes = Val(Val(statsPrev).out).cuisineTypes

\* the step is a run of build-stats.ts
RanBuildStats ==
    /\ clock' = clock
    /\ statsPrev' = statsRun
    /\ Has(statsRun')
    /\ Val(statsRun').script = "build-stats"

\* the directory exists, holds a record file, and every record file parses
Publishable == statsSource.exists /\ RecordFiles # {} /\ AllParse

\* C21: build-stats.ts writes stats.json only when the records directory
\* exists, holds at least one .json record file and every record file was read
\* and parsed without error; in every other case it ends with a non-zero
\* status and leaves the stats.json published before as it was.
C21_NoPartialArtifact ==
    [][RanBuildStats =>
          IF Publishable
          THEN /\ Val(statsRun').exit = 0
               /\ statsJson' = Val(statsRun').out
          ELSE /\ Val(statsRun').exit # 0
               /\ Val(statsRun').out = None
               /\ statsJson' = statsJson]_vars

\* a run met a malformed file next to a good record and left the earlier
\* stats.json in place
C21_Witness ==
    /\ Has(statsRun)
    /\ Val(statsRun).script = "build-stats"
    /\ Val(statsRun).exit = 1
    /\ statsSource.files = {StatsPool[1], StatsPool[5]}
    /\ statsJson = Some(PublishedStats)

----------------------------------------------------------------------------
(* Claims about the index artifact places.json *)

\* the data files the merge reads
InputFiles ==
    {f \in mergeSource : startsWith(f.name, PlacesPrefix) /\ endsWith(f.name, DotJson)}

\* the data files in the order of their names
FileOrder ==
    CHOOSE order \in Enumerations(InputFiles) :
        \A i \in 1..(Len(order) - 1) : Precedes(order[i].name, order[i + 1].name)

\* the records of the data files, file after file, each file's in its order
InputRecords == Concat([i \in 1..Len(FileOrder) |-> FileOrder[i].data])

\* the index projection leaves out contact details and hours
IndexProjection(place) ==
    [key \in DOMAIN place \ {"phone", "operatingHours"} |-> place[key]]

MergeSucceeded == Has(mergeRun) /\ Val(mergeRun).exit = 0

Index == Val(Val(mergeRun).out)

\* C22: the index artifact has one entry per input record, in input (file)
\* order and not re-sorted, each entry holding only the projected fields (no
\* operatingHours, no phone), and a second run on unchanged records writes
\* the same artifact.
C22_IndexIsProjection ==
    /\ MergeSucceeded =>
          /\ Len(Index) = Len(InputRecords)
          /\ Index = [i \in 1..Len(InputRecords) |-> IndexProjection(InputRecords[i])]
          /\ mergedJson = Some(Index)
    /\ (MergeSucceeded /\ Has(mergePrev) /\ Val(mergePrev).exit = 0)
          => Val(mergePrev).out = Val(mergeRun).out

----------------------------------------------------------------------------
(* Claims about the build workflow *)

StepOrder == <<"validate", "index", "stats", "commit", "deploy">>

\* a changed file is not a valid record
ChangeIsInvalid ==
    \E i \in 1..Len(workflow.changed) : ~ValidAlone(workflow.changed[i])

\* C23: after a push to main the run validates the changed record files, then
\* builds the index, then the stats, then commits the artifacts and triggers
\* the deployment, in that order; when validation fails nothing is built or
\* committed and no deployment is triggered, also when the push was a direct
\* commit that no pull-request validation saw.
C23_ValidationGatesPublication ==
    /\ IsPrefix(workflow.steps, StepOrder)
    /\ workflow.status = "done" => workflow.steps = StepOrder
    /\ (workflow.status # "idle" /\ ChangeIsInvalid) =>
          /\ IsPrefix(workflow.steps, <<"validate">>)
          /\ workflow.status # "done"
          /\ workflow.steps = <<"validate">> => workflow.status = "failed"

\* a direct commit of a record without cuisineTypes: the run stopped after
\* its validation step
C23_Witness ==
    /\ workflow.direct
    /\ workflow.changed = <<NoCuisineFile>>
    /\ workflow.status = "failed"
    /\ workflow.steps = <<"validate">>

----------------------------------------------------------------------------
(* C24: the slug the create route generates *)

\* the create handler accepted the body and generated a slug for its name
GeneratedSlug == response.route = "create" /\ response.stage = "pr"

TheSlug == Val(Val(response.handed).slug)

\* C24: for every name the create route accepts, the generated slug is
\* non-empty, is lower-case alphanumeric groups joined by single hyphens, and
\* generating a slug from it again returns it unchanged
C24_SlugWellFormed ==
    GeneratedSlug =>
        /\ TheSlug # <<>>
        /\ KebabCase(TheSlug)
        /\ generateSlug(TheSlug) = TheSlug

----------------------------------------------------------------------------
(* C25: the update route and records that do not exist *)

PassesCsrf(req) == ~Has(requireCsrfToken(req))

PassesLimit(req) == checkRateLimit(requests, getClientIP(req), clock)

PassesUpdateBody(req) ==
    req.bodyKind = "json" /\ updatePlaceRequestSchema(req.body) = <<>>

RecordExists(req) == Val(req.body.slug) \in DOMAIN places

\* the status the checks give when they run in the order CSRF, rate limit,
\* body validation, existence lookup, pull-request creation
UpdateStatusInOrder(req) ==
    IF ~PassesCsrf(req) THEN 403
    ELSE IF ~PassesLimit(req) THEN 429
    ELSE IF ~PassesUpdateBody(req) THEN 400
    ELSE IF ~RecordExists(req) THEN 404
    ELSE IF req.github = "ok" THEN 200 ELSE 500

\* C25: an update submission for a slug that has no existing record is
\* answered with 404 and creates no pull request; an update pull request is
\* created only after the CSRF check, the rate-limit check, body validation
\* and the existence lookup have all succeeded, in that order.
C25_UpdateNeedsExistingRecord ==
    [][\A req \in OrderUpdateRequests :
          (response'.route = "update" /\ UpdatePost(req)) =>
            /\ response'.status = UpdateStatusInOrder(req)
            /\ (/\ PassesCsrf(req) /\ PassesLimit(req) /\ PassesUpdateBody(req)
                /\ ~RecordExists(req))
                  => /\ response'.status = 404
                     /\ proposal' = proposal
                     /\ ~Has(response'.handed)
            /\ (proposal' # proposal \/ Has(response'.handed))
                  => /\ PassesCsrf(req) /\ PassesLimit(req)
                     /\ PassesUpdateBody(req) /\ RecordExists(req)]_vars

\* an update of a record was answered 404 after the removal of that record
\* had been merged
C25_Witness ==
    /\ response.route = "update"
    /\ response.status = 404
    /\ <<"a">> \notin DOMAIN places

----------------------------------------------------------------------------
(* C26: removal proposals *)

\* this step is a call of deletePlacePR
RanDelete == Has(deleteResult') /\ repo'.now = repo.now

IsSubSeq(a, b) ==
    \E f \in [1..Len(a) -> 1..Len(b)] :
        /\ \A i \in 1..Len(a) : b[f[i]] = a[i]
        /\ \A i, j \in 1..Len(a) : i < j => f[i] < f[j]

\* C26: deletePlacePR returns success only after the branch was created,
\* places/<slug>.json was deleted on that branch and the pull request was
\* opened, in that order; whenever it returns success = false, no new branch
\* or other change is left in the repository.
C26_AllOrNothing ==
    [][RanDelete =>
          LET ret    == Val(deleteResult')
              branch == BranchName(ret.slug, repo.now)
          IN  IF ret.success
              THEN /\ IsSubSeq(<<"createRef", "deleteFile", "pulls.create">>, ret.calls)
                   /\ branch \in DOMAIN repo'.branches \ DOMAIN repo.branches
                   /\ repo'.branches[branch] = repo.main \ {ret.slug}
                   /\ branch \in repo'.pulls
              ELSE repo' = repo]_vars

----------------------------------------------------------------------------
(* C27: the order of the checks and the rate-limit slots *)

PassesCreateBody(req) ==
    req.bodyKind = "json" /\ createPlaceRequestSchema(req.body) = <<>>

PassesDeleteBody(req) ==
    req.bodyKind = "json" /\ deletePlaceRequestSchema(req.body) = <<>>

\* the status of a request that passed the CSRF check and the rate limiter
CreateStatusAfterLimit(req) ==
    IF ~PassesCreateBody(req) THEN 400
    ELSE IF req.github = "ok" THEN 200 ELSE 500

UpdateStatusAfterLimit(req) ==
    IF ~PassesUpdateBody(req) THEN 400
    ELSE IF ~RecordExists(req) THEN 404
    ELSE IF req.github = "ok" THEN 200 ELSE 500

DeleteStatusAfterLimit(req) ==
    IF ~PassesDeleteBody(req) THEN 400
    ELSE IF req.github = "ok" /\ RecordExists(req) THEN 200 ELSE 500

\* the timestamps the limiter holds for the identity of req
SlotsUsed(reqs, req) == Len(Stored(reqs, getClientIP(req)))

\* the handler answered in the order CSRF, rate limit, the later checks, and
\* took a slot exactly when the request passed the first two
InOrder(req, route, statusAfterLimit) ==
    /\ response'.route = route
    /\ IF ~PassesCsrf(req)
       THEN /\ response'.status = 403
            /\ requests' = requests
            /\ accepted' = accepted
       ELSE IF ~PassesLimit(req)
       THEN /\ response'.status = 429
            /\ requests' = requests
            /\ accepted' = accepted
       ELSE /\ response'.status = statusAfterLimit
            /\ SlotsUsed(requests', req) = SlotsUsed(requests, req) + 1
            /\ SlotsUsed(requests', req) <= Limit
            /\ accepted' = Append(accepted, <<getClientIP(req), clock>>)

\* C27: in the create, update and delete handlers the checks run in the order
\* CSRF, rate limit, body validation, pull-request creation: a request the
\* CSRF check rejects (403) consumes no rate-limit slot, while a CSRF-valid
\* request consumes one of the identity's 5 slots even when it is then
\* rejected by body validation (400), by the existence lookup (404) or by a
\* failed pull-request creation (500).
C27_ChecksInOrder ==
    [][/\ response'.route = "create" =>
            \A req \in OrderCreateRequests :
                CreatePost(req) => InOrder(req, "create", CreateStatusAfterLimit(req))
       /\ response'.route = "update" =>
            \A req \in OrderUpdateRequests :
                UpdatePost(req) => InOrder(req, "update", UpdateStatusAfterLimit(req))
       /\ response'.route = "delete" =>
            \A req \in OrderDeleteRequests :
                DeletePost(req) => InOrder(req, "delete", DeleteStatusAfterLimit(req))]_vars

\* all five slots of the identity went to requests that were refused after
\* the rate limiter had counted them, the last one by body validation
C27_Witness ==
    /\ response.status = 400
    /\ Len(Stored(requests, response.identifier)) = Limit
    /\ Len(accepted) = Limit
    /\ nextUuid = 0
    /\ ~Has(proposal)
    /\ places = InitialPlaces

----------------------------------------------------------------------------
(* C28: refusals and the end of a block *)

\* this step is a handler's call of check() for the identity of req
Checks(req) == CreatePost(req) \/ UpdatePost(req) \/ DeletePost(req)

\* the timestamps recorded for the identity of req
Recorded(req) == Stored(requests, getClientIP(req))

Oldest(ts) == CHOOSE t \in {ts[i] : i \in 1..Len(ts)} : \A j \in 1..Len(ts) : t <= ts[j]

\* check() returned true: the request got past the limiter and was recorded
Accepted(req) ==
    /\ response'.status # 429
    /\ accepted' = Append(accepted, <<getClientIP(req), clock>>)
    /\ Stored(requests', getClientIP(req))[SlotsUsed(requests', req)] = clock

\* C28: a refused check() records nothing; once an identifier has reached the
\* limit, check() for it returns true again as soon as the oldest of its
\* recorded timestamps is at least windowMs old, however many refused
\* attempts happened in between; an identifier that stays silent for a full
\* window is always accepted on its next request.
C28_RefusalsDoNotExtendBlock ==
    [][\A req \in LimitRequests :
          Checks(req) =>
            /\ response'.status = 429 =>
                  /\ requests' = requests
                  /\ accepted' = accepted
            /\ (Len(Recorded(req)) = Limit /\ clock - Oldest(Recorded(req)) >= WindowMs)
                  => Accepted(req)
            /\ (\A i \in 1..Len(Recorded(req)) : clock - Recorded(req)[i] >= WindowMs)
                  => Accepted(req)]_vars

\* an identity used its five slots at once, and was accepted again when the
\* oldest of them was one window old
C28_Witness ==
    /\ Len(accepted) = Limit + 1
    /\ \A i \in 1..Limit : accepted[i] = <<"ip1", 0>>
    /\ accepted[Limit + 1] = <<"ip1", WindowMs>>
    /\ response.status = 400

----------------------------------------------------------------------------
(* C29: isolation of identifiers, and cleanup *)

\* the instants from now on at which a later check() may be made: now, and
\* up to a window later
LaterInstants == {clock, clock + HalfWindow, clock + WindowMs}

\* what check(b) returns at t, for every b stored or calling and every later t
SameResults(before, after, ids) ==
    \A b \in ids :
        \/ Stored(after, b) = Stored(before, b)
        \/ \A t \in LaterInstants :
              CheckAllows(after, b, t) = CheckAllows(before, b, t)

\* the map once check(a) has recorded its timestamp, before cleanup() runs
Recording(a) ==
    MapSet(requests, a, Append(Recent(Stored(requests, a), clock), clock))

\* check(a) ran cleanup()
CleanupRan(a) ==
    CheckAllows(requests, a, clock) /\ Cardinality(DOMAIN Recording(a)) > CleanupSize

\* what is stored after the step is what was stored before cleanup(), less
\* the timestamps outside the window and the identifiers left with none
OnlyStaleRemoved(recorded) ==
    /\ DOMAIN requests' \subseteq DOMAIN recorded
    /\ \A i \in DOMAIN recorded :
          /\ Stored(requests', i) = Recent(recorded[i], clock)
          /\ i \notin DOMAIN requests' => Recent(recorded[i], clock) = <<>>

\* C29: check(a) never changes the result of any later check(b) for b # a;
\* the cleanup that runs when more than 1000 identifiers are stored removes
\* only timestamps already outside the window and identifiers left with
\* none, so it never changes the result of any later check.
C29_IdentifiersIsolated ==
    [][\A a \in Callers :
          Check(a) =>
            /\ SameResults(requests, requests', (DOMAIN requests \cup Callers) \ {a})
            /\ CleanupRan(a) =>
                  LET recorded == Recording(a)
                  IN  /\ OnlyStaleRemoved(recorded)
                      /\ SameResults(recorded, requests', DOMAIN recorded)]_vars

\* a new client's check ran cleanup(): the clients whose timestamps were all
\* a window old are gone, the first client is among them, and the others
\* are still stored
C29_Witness ==
    /\ clock = WindowMs
    /\ Host(CleanupSize + 1) \in DOMAIN requests
    /\ Host(1) \notin DOMAIN requests
    /\ Host(4) \notin DOMAIN requests
    /\ Stored(requests, Host(2)) = <<HalfWindow>>
    /\ Stored(requests, Host(3)) = <<HalfWindow>>

----------------------------------------------------------------------------
(* C30: the token the client caches *)

\* C30: under any interleaving of requests from one browser, including
\* several sent before a secret cookie exists, the token csrfFetch sends
\* equals the secret cookie the browser sends with it, so that csrfFetch is
\* never answered 403 for a token the server issued to that browser.
C30_CachedTokenStaysUsable ==
    /\ \A m \in network : m.kind = "post" => m.header = m.cookie
    /\ browser.status # 403

====
